---- MODULE Spec2Model ----
(***************************************************************************)
(* State-machine model of the SuperStudent simulation core:                *)
(*   - utils/effects.py          Effects (crack marks, shatter, shake)     *)
(*   - levels/colors_level.py    ColorsLevel and its level runner          *)
(*   - utils/particle_system.py  ParticleSystem and ParticleManager        *)
(* Each component has its own specification (SpecEffects, SpecColors,      *)
(* SpecShatter, SpecShake, SpecParticleSystem, SpecParticleManager,        *)
(* SpecGrid, SpecCollision, SpecPools); the variables of the components a  *)
(* specification does not exercise stay at their initial values.           *)
(***************************************************************************)
EXTENDS Integers, Sequences, FiniteSets, TLC

VARIABLES
    \* ---- utils/effects.py: Effects ----
    glass_cracks,          \* list of crack marks (each mark kept as its origin)
    background_shattered,  \* the shatter latch
    shatter_timer,         \* the shatter countdown, in update() calls
    shake_duration,        \* frames of screen shake left
    shake_magnitude,       \* largest shake offset
    fx_last,               \* history: the last operation on Effects and its results
    fx_api,                \* history: the last start_shake / shatter_screen and the calls since
    fx_offset,             \* history: the pair the last recorded get_shake_offset returned
    \* ---- utils/particle_system.py: ParticleSystem ----
    ps_pool,               \* particle_pool: the particle objects, by slot
    ps_active,             \* active_particles: list of references (slot numbers)
    ps_dt,                 \* the fixed delta_time of this run, in 1/60 s
    ps_track,              \* history: the particle made by the last create_particle
    \* ---- utils/particle_system.py: ParticleManager ----
    pm_pool,               \* particle_pool: the particles pre-created by __init__
    pm_particles,          \* particles: the particles created later
    pm_last,               \* history: the last operation and what create_particle returned
    \* ---- levels/colors_level.py: ColorsLevel and start_colors_level_instance ----
    level,                 \* level_instance: the fields of the ColorsLevel object
    cl_run,                \* "running" inside the runner's loop, "ended" after cleanup()
    cl_status,             \* the status that ended the loop ("NONE" while running)
    cl_last,               \* history: the last event handled and what it did
    cl_checkpoint,         \* history: the level's state when CHECKPOINT was signalled
    cl_switched,           \* history: _switch_target_color has run since initialize()
    \* ---- levels/colors_level.py: the collision phase of _update_dots ----
    gd_dots,               \* self.dots as bucketed: position and alive flag of each dot
    gd_enabled,            \* self.collision_enabled
    gd_pairs,              \* history: the (dot1, dot2) calls of _check_collision, in order
    gd_done,               \* history: the collision phase has run on this placement
    \* ---- levels/colors_level.py: _check_collision on one pair of dots ----
    cd_dot1,               \* dot1: x, y, dx, dy, radius in 1/100 pixel, color
    cd_dot2,               \* dot2
    cd_pre,                \* history: <<dot1, dot2>> as the last call found them
    cd_last,               \* history: the last call, what it returned and the branch it took
    \* ---- systems/particle.py: ParticlePool ----
    pp_particles,          \* particles: the list of Particle objects
    pp_last,               \* history: the last operation and whether create_particle appended
    \* ---- settings.py COLLISION_GRID_SIZE as an input of both constructors ----
    gc_cell_size,          \* COLLISION_GRID_SIZE as configured
    gc_point,              \* position of the one alive dot / active particle
    gc_level,              \* ColorsLevel: how far it got, and the cell key of the dot
    gc_system,             \* ParticleSystem: how far it got, and the cell key of the particle
    \* ---- SuperStudent.py: the module-level shatter state ----
    ss_state,              \* glass_cracks, background_shattered, shatter_timer, the two
                           \* backgrounds, game_over_triggered, game_over_delay
    ss_pre,                \* history: <<current, opposite>> before the last shatter swapped them
    ss_last,               \* history: the last function called
    \* ---- levels/colors_level.py: _update_dots on two dots near a wall ----
    bn_dots,               \* <<dot1, dot2>>: x, y, dx, dy, radius in 1/100 pixel, color
    bn_pre,                \* history: the dots as the last _update_dots found them
    bn_bounced,            \* history: the dots after its integration and wall bounce
    bn_last,               \* history: the last call, its delta_time (ms), whether a pair collided
    bn_ticks,              \* number of _update_dots calls so far
    \* ---- levels/colors_level.py: the sequence of target classes ----
    sl_selected,           \* history: the color_idx of every _select_target_color call since initialize()
    \* ---- levels/colors_level.py: start_colors_level_instance ----
    rn_pc,                 \* position in the function: tick, events, draw, cleanup, returned
    rn_pending,            \* the events of pygame.event.get() not yet iterated over
    rn_running,            \* running
    rn_level_status,       \* level_status ("NONE" for None)
    rn_last_status,        \* last_status_from_handler ("NONE" for None)
    rn_ret,                \* the value returned ("NONE" until the function returns)
    rn_iterations,         \* number of completed loop iterations
    rn_got,                \* history: how many events event.get() returned in this iteration
    rn_iter,               \* history: the level's methods called in this iteration, in order
    rn_calls,              \* history: the level's methods called since initialize(), in order
    rn_term_at,            \* history: Len(rn_calls) when handle_event returned a terminating status, else 0
    \* ---- utils/resource_manager.py: ResourceManager ----
    rm_fonts,              \* keys of self.fonts
    rm_images,             \* keys of self.images
    rm_sounds,             \* keys of self.sounds
    rm_level_resources,    \* self.level_resources: per level, whether it has an entry and its three key sets
    rm_current_level,      \* self.current_level ("NONE" for None)
    rm_display_mode,       \* self.display_mode
    rm_last,               \* history: the last method called, and the level it unloaded
    \* ---- systems/multitouch.py: TouchManager ----
    tm_active_touches,     \* self.active_touches: per touch id, whether it is a key and its Touch
    tm_next_touch_id,      \* self.next_touch_id
    tm_owner,              \* history: per touch id, the finger (or the mouse) whose down event created it
    tm_pressed,            \* history: the fingers (and the mouse) that are down
    tm_last                \* history: the last event handled, its source and what was returned

varsFx == <<glass_cracks, background_shattered, shatter_timer,
            shake_duration, shake_magnitude, fx_last, fx_api, fx_offset>>

varsPS == <<ps_pool, ps_active, ps_dt, ps_track>>

varsPM == <<pm_pool, pm_particles, pm_last>>

varsCL == <<level, cl_run, cl_status, cl_last, cl_checkpoint, cl_switched>>

varsGD == <<gd_dots, gd_enabled, gd_pairs, gd_done>>

varsCD == <<cd_dot1, cd_dot2, cd_pre, cd_last>>

varsPP == <<pp_particles, pp_last>>

varsGC == <<gc_cell_size, gc_point, gc_level, gc_system>>

varsSS == <<ss_state, ss_pre, ss_last>>

varsBN == <<bn_dots, bn_pre, bn_bounced, bn_last, bn_ticks>>

varsSL == <<sl_selected>>

varsRN == <<rn_pc, rn_pending, rn_running, rn_level_status, rn_last_status, rn_ret, rn_iterations, rn_got, rn_iter, rn_calls, rn_term_at>>

varsRM == <<rm_fonts, rm_images, rm_sounds, rm_level_resources, rm_current_level, rm_display_mode, rm_last>>

varsTM == <<tm_active_touches, tm_next_touch_id, tm_owner, tm_pressed, tm_last>>

vars == <<varsFx, varsPS, varsPM, varsCL, varsGD, varsCD, varsPP, varsGC, varsSS, varsBN, varsSL, varsRN, varsRM, varsTM>>

\* ------------------------------------------------------------------------
\* Generic helpers
\* ------------------------------------------------------------------------
Max(a, b) == IF a >= b THEN a ELSE b
Min(a, b) == IF a <= b THEN a ELSE b
\* ceil(a / b) for a >= 0, b > 0
CeilDiv(a, b) == (a + b - 1) \div b

\* ------------------------------------------------------------------------
\* Effects (utils/effects.py)
\* ------------------------------------------------------------------------
MAX_CRACKS == 15            \* settings.py: cracks needed to shatter the screen
SHATTER_DURATION == 600     \* shatter_screen(duration=600)
SHATTER_SHAKE_DURATION == 10   \* shatter_screen: self.start_shake(10, 15)
SHATTER_SHAKE_MAGNITUDE == 15

\* The click / touch location of a miss. The polyline of a crack is random
\* decoration drawn from (x, y); a crack mark is kept as its origin.
MissPoints == {<<40, 30>>}

\* Effects.create_crack(x, y): returns the new crack list and the return value.
create_crack_unguarded(cracks, pt) ==
    LET added == Append(cracks, pt) IN
    [cracks |-> added, ret |-> Len(added) >= MAX_CRACKS]

create_crack(cracks, pt) ==
    IF Len(cracks) >= MAX_CRACKS
    THEN [cracks |-> cracks, ret |-> FALSE]
    ELSE LET added == Append(cracks, pt) IN
         [cracks |-> added, ret |-> Len(added) >= MAX_CRACKS]

\* Effects.start_shake(duration, magnitude)
start_shake(duration, magnitude) ==
    /\ shake_duration' = duration
    /\ shake_magnitude' = magnitude

\* Effects.shatter_screen(duration)
shatter_screen(duration) ==
    /\ background_shattered' = TRUE
    /\ shatter_timer' = duration
    /\ start_shake(SHATTER_SHAKE_DURATION, SHATTER_SHAKE_MAGNITUDE)

\* The shatter part of Effects.update(): the countdown and the recovery.
\* Returns the new (shattered, timer, cracks).
update_shatter_early(shattered, timer, cracks) ==
    IF shattered /\ timer > 0
    THEN [shattered |-> FALSE, timer |-> timer - 1, cracks |-> <<>>]
    ELSE [shattered |-> shattered, timer |-> timer, cracks |-> cracks]

\* Effects.update() with a countdown that never releases the latch.
update_shatter_no_reset(shattered, timer, cracks) ==
    IF shattered /\ timer > 0
    THEN [shattered |-> shattered, timer |-> timer - 1, cracks |-> cracks]
    ELSE [shattered |-> shattered, timer |-> timer, cracks |-> cracks]

\* Effects.update() releasing the latch without clearing the crack marks.
update_shatter_keeps_cracks(shattered, timer, cracks) ==
    IF shattered /\ timer > 0
    THEN [shattered |-> (timer - 1 > 0), timer |-> timer - 1, cracks |-> cracks]
    ELSE [shattered |-> shattered, timer |-> timer, cracks |-> cracks]

update_shatter(shattered, timer, cracks) ==
    IF shattered /\ timer > 0
    THEN IF timer - 1 <= 0
         THEN [shattered |-> FALSE, timer |-> timer - 1, cracks |-> <<>>]
         ELSE [shattered |-> shattered, timer |-> timer - 1, cracks |-> cracks]
    ELSE [shattered |-> shattered, timer |-> timer, cracks |-> cracks]

\* The call history: the arguments of the last start_shake (shake_d, shake_m),
\* shake_duration before it, the get_shake_offset calls since (counted up to
\* shake_d); the argument of the last shatter_screen (shatter_d) and the
\* update calls since (counted up to shatter_d). -1: no such call yet.
NoApiCall == [shake_d |-> -1, shake_m |-> -1, shake_before |-> 0, offsets |-> 0,
              shatter_d |-> -1, updates |-> 0]

\* The history after start_shake(d, m) / shatter_screen(d) / one more
\* get_shake_offset / one more update.
LogStartShake(log, d, m) ==
    [log EXCEPT !.shake_d = d, !.shake_m = m, !.shake_before = shake_duration,
                !.offsets = 0]
LogShatterScreen(log, d) ==
    [LogStartShake(log, SHATTER_SHAKE_DURATION, SHATTER_SHAKE_MAGNITUDE)
        EXCEPT !.shatter_d = d, !.updates = 0]
LogGetShakeOffset(log) == [log EXCEPT !.offsets = Min(@ + 1, Max(log.shake_d, 0))]
LogUpdate(log) == [log EXCEPT !.updates = Min(@ + 1, Max(log.shatter_d, 0))]

FxIdle ==
    /\ glass_cracks = <<>>
    /\ background_shattered = FALSE
    /\ shatter_timer = 0
    /\ shake_duration = 0
    /\ shake_magnitude = 0
    /\ fx_last = [op |-> "init", ret |-> FALSE, shatter |-> FALSE, status |-> "NONE"]
    /\ fx_api = NoApiCall
    /\ fx_offset = <<0, 0>>

FxInit ==
    /\ glass_cracks = <<>>
    /\ background_shattered = FALSE
    /\ shatter_timer = 0
    /\ shake_duration = 0
    /\ shake_magnitude = 0
    /\ fx_last = [op |-> "init", ret |-> FALSE, shatter |-> FALSE, status |-> "NONE"]
    /\ fx_api = NoApiCall
    /\ fx_offset = <<0, 0>>

\* A qualifying miss as ColorsLevel.handle_event (lines 302-307, 332-337) and
\* BaseLevel._handle_misclick handle it: create_crack, and shatter_screen()
\* when it returns True.
FxMiss ==
    \E pt \in MissPoints :
        LET r == create_crack(glass_cracks, pt) IN
        /\ glass_cracks' = r.cracks
        /\ IF r.ret
           THEN shatter_screen(SHATTER_DURATION)
           ELSE UNCHANGED <<background_shattered, shatter_timer,
                            shake_duration, shake_magnitude>>
        /\ fx_last' = [op |-> "miss", ret |-> r.ret, shatter |-> r.ret,
                       status |-> IF r.ret THEN "GAME_OVER" ELSE "NONE"]
        /\ fx_api' = IF r.ret THEN LogShatterScreen(fx_api, SHATTER_DURATION) ELSE fx_api
        /\ fx_offset' = fx_offset

\* Effects.update(), called once per tick by BaseLevel.update.
FxUpdate ==
    LET u == update_shatter(background_shattered, shatter_timer, glass_cracks) IN
    /\ background_shattered' = u.shattered
    /\ shatter_timer' = u.timer
    /\ glass_cracks' = u.cracks
    /\ UNCHANGED <<shake_duration, shake_magnitude>>
    /\ fx_last' = [op |-> "update", ret |-> FALSE, shatter |-> FALSE, status |-> "NONE"]
    /\ fx_api' = LogUpdate(fx_api)
    /\ fx_offset' = fx_offset

\* Effects.get_shake_offset(), called once per draw. The pair it returns only
\* displaces what is drawn and is not recorded here.
FxGetShakeOffset ==
    /\ shake_duration' = IF shake_duration > 0 THEN shake_duration - 1 ELSE shake_duration
    /\ UNCHANGED <<glass_cracks, background_shattered, shatter_timer, shake_magnitude>>
    /\ fx_last' = [op |-> "draw", ret |-> FALSE, shatter |-> FALSE, status |-> "NONE"]
    /\ fx_api' = LogGetShakeOffset(fx_api)
    /\ fx_offset' = fx_offset

\* ---- Effects driven through its public methods by any caller ----
MaxShakeArg == 3            \* start_shake is called with durations 0..MaxShakeArg
MaxMagnitudeArg == 2        \* ... and magnitudes 0..MaxMagnitudeArg
MaxShatterArg == 3          \* shatter_screen is called with durations 0..MaxShatterArg

\* get_shake_offset still drawing random offsets once the shake has expired.
ShakeOffsetsAfterExpiry(duration, magnitude) ==
    IF duration >= 0
    THEN (-magnitude..magnitude) \X (-magnitude..magnitude)
    ELSE {<<0, 0>>}

\* get_shake_offset: the pairs it may return, random.randint(-m, m) twice
\* while a shake is in flight, (0, 0) otherwise.
ShakeOffsets(duration, magnitude) ==
    IF duration > 0
    THEN (-magnitude..magnitude) \X (-magnitude..magnitude)
    ELSE {<<0, 0>>}

\* create_crack(x, y) by itself.
ApiCreateCrack ==
    \E pt \in MissPoints :
        LET r == create_crack(glass_cracks, pt) IN
        /\ glass_cracks' = r.cracks
        /\ fx_last' = [op |-> "create_crack", ret |-> r.ret, shatter |-> FALSE,
                       status |-> "NONE"]
        /\ UNCHANGED <<background_shattered, shatter_timer, shake_duration,
                       shake_magnitude, fx_api, fx_offset>>

\* shatter_screen(d)
ApiShatterScreen(d) ==
    /\ shatter_screen(d)
    /\ fx_last' = [op |-> "shatter_screen", ret |-> FALSE, shatter |-> TRUE,
                   status |-> "NONE"]
    /\ fx_api' = LogShatterScreen(fx_api, d)
    /\ UNCHANGED <<glass_cracks, fx_offset>>

\* start_shake(d, m)
ApiStartShake(d, m) ==
    /\ start_shake(d, m)
    /\ fx_last' = [op |-> "start_shake", ret |-> FALSE, shatter |-> FALSE,
                   status |-> "NONE"]
    /\ fx_api' = LogStartShake(fx_api, d, m)
    /\ UNCHANGED <<glass_cracks, background_shattered, shatter_timer, fx_offset>>

\* get_shake_offset() with its return value recorded.
ApiGetShakeOffset ==
    /\ fx_offset' \in ShakeOffsets(shake_duration, shake_magnitude)
    /\ shake_duration' = IF shake_duration > 0 THEN shake_duration - 1 ELSE shake_duration
    /\ fx_last' = [op |-> "get_shake_offset", ret |-> FALSE, shatter |-> FALSE,
                   status |-> "NONE"]
    /\ fx_api' = LogGetShakeOffset(fx_api)
    /\ UNCHANGED <<glass_cracks, background_shattered, shatter_timer, shake_magnitude>>


\* ------------------------------------------------------------------------
\* ParticleSystem (utils/particle_system.py)
\* ------------------------------------------------------------------------
PsMaxParticles == 2         \* max_particles = MAX_PARTICLES[display_mode], scaled down
PsSlotCap == 4              \* the model stops creating when particle_pool has this many slots
PsActiveCap == 4            \* ... or active_particles this many entries
PARTICLE_CULLING_DISTANCE == 800   \* settings.py: DEFAULT_WIDTH
PsWidth == 800              \* screen_width, screen_height given to the constructor
PsHeight == 600

\* delta_time values, in sixtieths of a second: 1/60 s (a 60 FPS frame) and 1 s.
PsDtChoices == {1, 60}
\* create_particle arguments the model draws from.
PsXs == {0}
PsYs == {0}
PsColors == {"white"}
PsSizes == {5}
PsDxs == {0, 30}
PsDys == {0}
PsDurations == {1, 2}

PsBlank == [x |-> 0, y |-> 0, color |-> "black", size |-> 0, dx |-> 0, dy |-> 0,
            duration |-> 0, start_duration |-> 0, active |-> FALSE]

\* ParticleSystem._initialize_particle_pool: max_particles inactive particles.
PsInitialPool == [i \in 1..PsMaxParticles |-> PsBlank]

\* seq without its k-th element.
RemoveAt(seq, k) == [j \in 1..(Len(seq) - 1) |-> IF j < k THEN seq[j] ELSE seq[j + 1]]

\* min(self.active_particles, key=lambda p: p["duration"]): the first entry
\* of the list whose particle has the least duration.
PsOldest(pool, active) ==
    LET least(k) == \A j \in 1..Len(active) :
                        pool[active[j]].duration >= pool[active[k]].duration
        k0 == CHOOSE k \in 1..Len(active) :
                  /\ least(k)
                  /\ \A j \in 1..(k - 1) : ~least(j)
    IN active[k0]

\* ParticleSystem.get_particle: [pool, active, slot] after the call.
PsGetParticle(pool, active) ==
    LET free == CHOOSE i \in 0..Len(pool) :
                    /\ (i # 0 => ~pool[i].active)
                    /\ \A j \in 1..Len(pool) : (~pool[j].active) => (i # 0 /\ i <= j)
    IN IF free # 0
       THEN [pool |-> [pool EXCEPT ![free].active = TRUE],
             active |-> Append(active, free),
             slot |-> free]
       ELSE IF Len(active) >= PsMaxParticles
       THEN [pool |-> pool, active |-> active, slot |-> PsOldest(pool, active)]
       ELSE [pool |-> Append(pool, [PsBlank EXCEPT !.active = TRUE]),
             active |-> Append(active, Len(pool) + 1),
             slot |-> Len(pool) + 1]

\* Python's `particle in list` / `list.remove(particle)` on dicts: position of
\* the first entry that is the same object as, or compares equal to, slot i.
PsFindEqual(pool, active, i) ==
    LET hit(k) == active[k] = i \/ pool[active[k]] = pool[i]
    IN IF \E k \in 1..Len(active) : hit(k)
       THEN CHOOSE k \in 1..Len(active) : hit(k) /\ \A j \in 1..(k - 1) : ~hit(j)
       ELSE 0

\* ParticleSystem.release_particle: [pool, active] after the call.
PsRelease(pool, active, i) ==
    LET k == PsFindEqual(pool, active, i)
    IN IF k # 0
       THEN [pool |-> [pool EXCEPT ![i].active = FALSE], active |-> RemoveAt(active, k)]
       ELSE [pool |-> pool, active |-> active]

PsCulled(p) ==
    \/ p.x < -PARTICLE_CULLING_DISTANCE
    \/ p.x > PsWidth + PARTICLE_CULLING_DISTANCE
    \/ p.y < -PARTICLE_CULLING_DISTANCE
    \/ p.y > PsHeight + PARTICLE_CULLING_DISTANCE

\* One iteration of the loop of ParticleSystem.update over slot i.
PsUpdateOne(pool, active, i, dt) ==
    IF pool[i].duration > 0
    THEN LET moved == [pool[i] EXCEPT !.x = @ + pool[i].dx * dt,
                                      !.y = @ + pool[i].dy * dt,
                                      !.duration = @ - 1]
             pool1 == [pool EXCEPT ![i] = moved]
         IN IF PsCulled(moved)
            THEN PsRelease(pool1, active, i)
            ELSE [pool |-> pool1, active |-> active]
    ELSE PsRelease(pool, active, i)

\* ParticleSystem.update(delta_time): the loop over list(self.active_particles).
RECURSIVE PsUpdateLoop(_, _, _, _, _)
PsUpdateLoop(pool, active, snapshot, k, dt) ==
    IF k > Len(snapshot) THEN [pool |-> pool, active |-> active]
    ELSE LET r == PsUpdateOne(pool, active, snapshot[k], dt)
         IN PsUpdateLoop(r.pool, r.active, snapshot, k + 1, dt)

\* ParticleSystem.clear(): release every entry of list(self.active_particles).
RECURSIVE PsClearLoop(_, _, _, _)
PsClearLoop(pool, active, snapshot, k) ==
    IF k > Len(snapshot) THEN [pool |-> pool, active |-> active]
    ELSE LET r == PsRelease(pool, active, snapshot[k])
         IN PsClearLoop(r.pool, r.active, snapshot, k + 1)

PsIdle ==
    /\ ps_pool = PsInitialPool
    /\ ps_active = <<>>
    /\ ps_dt = 1
    /\ ps_track = [slot |-> 0, life |-> 0, updates |-> 0]

PsInit ==
    /\ ps_pool = PsInitialPool
    /\ ps_active = <<>>
    /\ ps_dt \in PsDtChoices
    /\ ps_track = [slot |-> 0, life |-> 0, updates |-> 0]

\* ParticleSystem.create_particle(x, y, color, size, dx, dy, duration)
PsCreateParticle ==
    \E x \in PsXs, y \in PsYs, color \in PsColors, size \in PsSizes,
       dx \in PsDxs, dy \in PsDys, duration \in PsDurations :
        LET g == PsGetParticle(ps_pool, ps_active) IN
        /\ Len(g.pool) <= PsSlotCap
        /\ Len(g.active) <= PsActiveCap
        /\ ps_pool' = [g.pool EXCEPT ![g.slot] =
                          [x |-> x, y |-> y, color |-> color, size |-> size,
                           dx |-> dx, dy |-> dy, duration |-> duration,
                           start_duration |-> duration, active |-> g.pool[g.slot].active]]
        /\ ps_active' = g.active
        /\ ps_track' = [slot |-> g.slot, life |-> duration, updates |-> 0]
        /\ UNCHANGED ps_dt

\* ParticleSystem.update(delta_time) with the run's fixed delta_time.
PsUpdate ==
    LET r == PsUpdateLoop(ps_pool, ps_active, ps_active, 1, ps_dt) IN
    /\ ps_pool' = r.pool
    /\ ps_active' = r.active
    /\ ps_track' = IF ps_track.slot # 0 /\ ps_track.updates <= ps_track.life
                   THEN [ps_track EXCEPT !.updates = @ + 1]
                   ELSE ps_track
    /\ UNCHANGED ps_dt

\* ParticleSystem.clear()
PsClear ==
    LET r == PsClearLoop(ps_pool, ps_active, ps_active, 1) IN
    /\ ps_pool' = r.pool
    /\ ps_active' = r.active
    /\ ps_track' = [slot |-> 0, life |-> 0, updates |-> 0]
    /\ UNCHANGED ps_dt

\* ------------------------------------------------------------------------
\* ParticleManager (utils/particle_system.py)
\* ------------------------------------------------------------------------
PmMaxParticles == 2         \* max_particles given to the constructor, scaled down
PmPrealloc == 2             \* __init__ pre-creates range(100) pool particles, scaled down
PmCullingDistance == 800    \* set_culling_distance(WIDTH)

\* update(delta_time=1.0): SuperStudent.py calls particle_manager.update().
PmDts == {1}
PmXs == {0}
PmYs == {0}
PmColors == {"white"}
PmSizes == {5}
PmDxs == {0, 900}
PmDys == {0}
PmDurations == {1, 2}

\* ParticleManager.__init__: the pre-created pool.
PmInitialPool == [i \in 1..PmPrealloc |-> PsBlank]

\* ParticleManager.get_particle that recycles the first particle of the list
\* instead of returning None.
PmGetParticleRecycling(pool, particles) ==
    LET free == CHOOSE i \in 0..Len(pool) :
                    /\ (i # 0 => ~pool[i].active)
                    /\ \A j \in 1..Len(pool) : (~pool[j].active) => (i # 0 /\ i <= j)
    IN IF free # 0
       THEN [pool |-> [pool EXCEPT ![free].active = TRUE], particles |-> particles,
             where |-> "pool", slot |-> free]
       ELSE IF Len(particles) >= PmMaxParticles /\ Len(particles) > 0
       THEN [pool |-> pool, particles |-> particles, where |-> "list", slot |-> 1]
       ELSE [pool |-> pool, particles |-> Append(particles, [PsBlank EXCEPT !.active = TRUE]),
             where |-> "list", slot |-> Len(particles) + 1]

\* ParticleManager.get_particle: [pool, particles, where, slot] after the
\* call; where is "pool", "list" or "none" (None returned).
PmGetParticle(pool, particles) ==
    LET free == CHOOSE i \in 0..Len(pool) :
                    /\ (i # 0 => ~pool[i].active)
                    /\ \A j \in 1..Len(pool) : (~pool[j].active) => (i # 0 /\ i <= j)
    IN IF free # 0
       THEN [pool |-> [pool EXCEPT ![free].active = TRUE], particles |-> particles,
             where |-> "pool", slot |-> free]
       ELSE IF Len(particles) >= PmMaxParticles
       THEN [pool |-> pool, particles |-> particles, where |-> "none", slot |-> 0]
       ELSE [pool |-> pool, particles |-> Append(particles, [PsBlank EXCEPT !.active = TRUE]),
             where |-> "list", slot |-> Len(particles) + 1]

\* One iteration of the loop of ParticleManager.update over a particle.
PmUpdateOne(q, dt) ==
    IF q.active
    THEN LET moved == [q EXCEPT !.x = @ + q.dx * dt, !.y = @ + q.dy * dt,
                                !.duration = @ - dt]
         IN IF moved.duration <= 0
            THEN [moved EXCEPT !.active = FALSE]
            ELSE IF /\ PmCullingDistance > 0
                    /\ moved.x * moved.x + moved.y * moved.y
                         > PmCullingDistance * PmCullingDistance
            THEN [moved EXCEPT !.active = FALSE]
            ELSE moved
    ELSE q

PmIdle ==
    /\ pm_pool = PmInitialPool
    /\ pm_particles = <<>>
    /\ pm_last = [op |-> "init", where |-> "none"]

PmInit == PmIdle

\* ParticleManager.create_particle(x, y, color, size, dx, dy, duration)
PmCreateParticle ==
    \E x \in PmXs, y \in PmYs, color \in PmColors, size \in PmSizes,
       dx \in PmDxs, dy \in PmDys, duration \in PmDurations :
        LET g == PmGetParticle(pm_pool, pm_particles)
            made == [x |-> x, y |-> y, color |-> color, size |-> size,
                     dx |-> dx, dy |-> dy, duration |-> duration,
                     start_duration |-> duration, active |-> TRUE]
        IN
        /\ pm_pool' = IF g.where = "pool" THEN [g.pool EXCEPT ![g.slot] = made] ELSE g.pool
        /\ pm_particles' = IF g.where = "list"
                           THEN [g.particles EXCEPT ![g.slot] = made]
                           ELSE g.particles
        /\ pm_last' = [op |-> "create", where |-> g.where]

\* ParticleManager.update(delta_time): only self.particles is traversed.
PmUpdate ==
    \E dt \in PmDts :
        /\ pm_particles' = [k \in 1..Len(pm_particles) |-> PmUpdateOne(pm_particles[k], dt)]
        /\ pm_last' = [op |-> "update", where |-> "none"]
        /\ UNCHANGED pm_pool

\* ParticleManager.clear(): only self.particles is traversed.
PmClear ==
    /\ pm_particles' = [k \in 1..Len(pm_particles) |->
                           [pm_particles[k] EXCEPT !.active = FALSE]]
    /\ pm_last' = [op |-> "clear", where |-> "none"]
    /\ UNCHANGED pm_pool

\* ------------------------------------------------------------------------
\* ParticlePool (systems/particle.py)
\* ------------------------------------------------------------------------
PpMaxParticles == 2         \* max_particles given to the constructor, scaled down

PpDts == {1}
PpPositions == {<<0, 0>>}
PpVelocities == {<<0, 0>>, <<3, 0>>}
PpColors == {"white"}
PpSizes == {5}
PpLives == {1, 2}

\* ParticlePool.create_particle: the list after the call and whether a
\* particle was appended (the method returns None either way).
PpCreate(particles, made) ==
    IF Len(particles) >= PpMaxParticles
    THEN [particles |-> particles, appended |-> FALSE]
    ELSE [particles |-> Append(particles, made), appended |-> TRUE]

\* One iteration of the loop of ParticlePool.update: <<>> for a particle
\* that is removed, or the particle moved.
PpUpdateOne(p, dt) ==
    IF p.life - dt <= 0 THEN <<>>
    ELSE <<[p EXCEPT !.life = @ - dt,
                     !.pos = <<p.pos[1] + p.velocity[1] * dt, p.pos[2] + p.velocity[2] * dt>>]>>

RECURSIVE PpUpdateLoop(_, _)
PpUpdateLoop(particles, dt) ==
    IF particles = <<>> THEN <<>>
    ELSE PpUpdateOne(Head(particles), dt) \o PpUpdateLoop(Tail(particles), dt)

PpIdle ==
    /\ pp_particles = <<>>
    /\ pp_last = [op |-> "init", appended |-> FALSE]

PpInit == PpIdle

\* ParticlePool.create_particle(pos, velocity, color, size, life)
PpCreateParticle ==
    \E pos \in PpPositions, velocity \in PpVelocities, color \in PpColors,
       size \in PpSizes, life \in PpLives :
        LET r == PpCreate(pp_particles,
                          [pos |-> pos, velocity |-> velocity, color |-> color,
                           size |-> size, life |-> life, max_life |-> life])
        IN /\ pp_particles' = r.particles
           /\ pp_last' = [op |-> "create", appended |-> r.appended]

\* ParticlePool.update(dt)
PpUpdate ==
    \E dt \in PpDts :
        /\ pp_particles' = PpUpdateLoop(pp_particles, dt)
        /\ pp_last' = [op |-> "update", appended |-> FALSE]

\* ------------------------------------------------------------------------
\* The shatter state of SuperStudent.py (create_crack, draw_cracks)
\*
\* A crack is kept as the color it is drawn in. The burst of particles of the
\* shatter goes to the particle manager and is not part of this state.
\* ------------------------------------------------------------------------
CRACK_DURATION == 600            \* SuperStudent.py
GAME_OVER_DELAY_FRAMES == 60     \* SuperStudent.py
SsMaxCracks == 17                \* the model stops adding cracks at this many

\* effective_background, and the color a crack is drawn in on it.
SsEffectiveBackground(s) ==
    IF s.background_shattered THEN s.opposite_background ELSE s.current_background
SsCrackColor(s) == IF SsEffectiveBackground(s) = "BLACK" THEN "WHITE" ELSE "BLACK"

\* create_crack(x, y)
ss_create_crack(s) ==
    LET added == Append(s.glass_cracks, SsCrackColor(s)) IN
    IF Len(added) >= MAX_CRACKS /\ ~s.game_over_triggered
    THEN [glass_cracks |-> added,
          background_shattered |-> TRUE,
          shatter_timer |-> CRACK_DURATION,
          current_background |-> s.opposite_background,
          opposite_background |-> s.current_background,
          game_over_triggered |-> TRUE,
          game_over_delay |-> GAME_OVER_DELAY_FRAMES]
    ELSE [s EXCEPT !.glass_cracks = added]

\* draw_cracks(surface): the countdown; the cracks are only drawn.
ss_draw_cracks(s) ==
    IF s.background_shattered
    THEN IF s.shatter_timer - 1 <= 0
         THEN [s EXCEPT !.shatter_timer = @ - 1,
                        !.background_shattered = FALSE,
                        !.current_background = s.opposite_background,
                        !.opposite_background = s.current_background]
         ELSE [s EXCEPT !.shatter_timer = @ - 1]
    ELSE s

\* game_over_screen(): the click that leaves the screen.
ss_game_over_click(s) ==
    [s EXCEPT !.glass_cracks = <<>>,
              !.background_shattered = FALSE,
              !.game_over_triggered = FALSE]

\* game_loop(mode): the reset of the globals before its loop; the two
\* backgrounds are not among them.
ss_game_loop_reset(s) ==
    [s EXCEPT !.glass_cracks = <<>>,
              !.background_shattered = FALSE,
              !.shatter_timer = 0,
              !.game_over_triggered = FALSE,
              !.game_over_delay = 0]

\* The module-level initial values.
SsFresh ==
    [glass_cracks |-> <<>>,
     background_shattered |-> FALSE,
     shatter_timer |-> 0,
     current_background |-> "WHITE",
     opposite_background |-> "BLACK",
     game_over_triggered |-> FALSE,
     game_over_delay |-> 0]

SsIdle ==
    /\ ss_state = SsFresh
    /\ ss_pre = <<"WHITE", "BLACK">>
    /\ ss_last = "init"

SsInit == SsIdle

SsCreateCrack ==
    /\ Len(ss_state.glass_cracks) < SsMaxCracks
    /\ ss_state' = ss_create_crack(ss_state)
    /\ ss_pre' = IF ss_state'.background_shattered /\ ss_state'.shatter_timer = CRACK_DURATION
                    /\ ss_state'.game_over_triggered /\ ~ss_state.game_over_triggered
                 THEN <<ss_state.current_background, ss_state.opposite_background>>
                 ELSE ss_pre
    /\ ss_last' = "create_crack"

SsDrawCracks ==
    /\ ss_state' = ss_draw_cracks(ss_state)
    /\ ss_pre' = ss_pre
    /\ ss_last' = "draw_cracks"

SsGameOverClick ==
    /\ ss_state.game_over_triggered
    /\ ss_state' = ss_game_over_click(ss_state)
    /\ ss_pre' = ss_pre
    /\ ss_last' = "game_over_screen"

SsGameLoop ==
    /\ ss_state' = ss_game_loop_reset(ss_state)
    /\ ss_pre' = ss_pre
    /\ ss_last' = "game_loop"

\* ------------------------------------------------------------------------
\* ColorsLevel (levels/colors_level.py)
\* ------------------------------------------------------------------------
\* Dot positions and velocities are not part of this component's state: a
\* click is given by the set of dots within DOT_CLICK_RADIUS of it.
NumColors == 3              \* len(COLORS_LIST) (5 in settings.py), scaled down
DISPERSE_DOTS == 4          \* _initialize_dispersion: range(100), scaled down
DISPERSE_TARGETS == 2       \* _initialize_dispersion: i < 25, scaled down
DESIRED_TOTAL == 4          \* _generate_new_dots: desired_total = 100, scaled down
NEW_DOTS_COUNT == 2         \* _generate_new_dots: new_dots_count = 10, scaled down
TARGET_QUOTA == 2           \* _handle_target_hit: current_color_dots_destroyed >= 5, scaled down
CHECKPOINT_TRIGGER == 4     \* settings.py: CHECKPOINT_TRIGGER = 10, scaled down
VIBRATION_FRAMES == 30      \* settings.py
DISPERSE_FRAMES == 30       \* settings.py
MaxHits == 8                \* the model stops hitting targets after this many hits in a level
MaxNear == 2                \* at most this many dots lie within the click radius of a click

ColorNames == <<"Blue", "Red", "Green", "Yellow", "Purple">>
COLORS_LIST == SubSeq(ColorNames, 1, NumColors)
ColorIdx == 1..NumColors    \* range(len(COLORS_LIST)), counted from 1

InList(x, seq) == \E k \in 1..Len(seq) : seq[k] = x

\* sum(1 for d in self.dots if d["target"] and d["alive"])
CountTargets(dots) == Cardinality({k \in 1..Len(dots) : dots[k].target /\ dots[k].alive})

\* ColorsLevel.__init__ followed by the part of initialize() after the first
\* _select_target_color(): the reset of the level state.
FreshLevel(idx) ==
    [dots_state |-> "MOTHER_VIBRATION",
     state_timer |-> VIBRATION_FRAMES,
     dots |-> <<>>,
     disperse_particles |-> <<>>,
     color_idx |-> idx,
     mother_color |-> COLORS_LIST[idx],
     used_colors |-> <<>>,
     target_dots_left |-> 10,
     overall_destroyed |-> 0,
     current_color_dots_destroyed |-> 0,
     total_dots_destroyed |-> 0,
     collision_enabled |-> FALSE,
     color_changed |-> FALSE,
     initialized |-> TRUE]

\* _select_target_color: the used list after the "all colors used" reset.
SelectUsed(L) ==
    IF \A i \in ColorIdx : InList(i, L.used_colors)
    THEN <<L.color_idx>>
    ELSE L.used_colors

\* _select_target_color: the indices random.choice / random.randint draws from.
SelectChoices(L) ==
    LET available == {i \in ColorIdx : ~InList(i, SelectUsed(L))}
    IN IF available = {} THEN ColorIdx ELSE available

\* _select_target_color with `pick` the index drawn.
SelectTargetColor(L, pick) ==
    LET used == SelectUsed(L) IN
    [L EXCEPT !.color_idx = pick,
              !.used_colors = IF InList(pick, used) THEN used ELSE Append(used, pick),
              !.mother_color = COLORS_LIST[pick]]

\* _switch_target_color without the re-evaluation of the dots' target flags.
SwitchTargetColorNoRetag(L, pick) ==
    LET S == SelectTargetColor(L, pick) IN
    [S EXCEPT !.current_color_dots_destroyed = 0,
              !.color_changed = TRUE,
              !.collision_enabled = IF ~L.color_changed THEN TRUE ELSE L.collision_enabled,
              !.target_dots_left = CountTargets(L.dots)]

SwitchTargetColor(L, pick) ==
    LET S == SelectTargetColor(L, pick)
        retagged == [k \in 1..Len(L.dots) |->
                        IF L.dots[k].alive
                        THEN [L.dots[k] EXCEPT !.target = (L.dots[k].color = S.mother_color)]
                        ELSE L.dots[k]]
    IN [S EXCEPT !.current_color_dots_destroyed = 0,
                 !.color_changed = TRUE,
                 !.collision_enabled = IF ~L.color_changed THEN TRUE ELSE L.collision_enabled,
                 !.dots = retagged,
                 !.target_dots_left = CountTargets(retagged)]

\* _initialize_dispersion: the colors of the dispersing particles. The first
\* DISPERSE_TARGETS have the mother color; the rest is dealt to the other
\* colors in list order, dots_per_color each and one more to the first `extra`.
DisperseColors(L) ==
    LET others == SelectSeq([i \in 1..NumColors |-> i], LAMBDA i : i # L.color_idx)
        n == Len(others)
        total == DISPERSE_DOTS - DISPERSE_TARGETS
        per == total \div n
        extra == total % n
        colorOf(j) == IF j <= extra * (per + 1)
                      THEN others[((j - 1) \div (per + 1)) + 1]
                      ELSE others[extra + ((j - extra * (per + 1) - 1) \div per) + 1]
    IN [i \in 1..DISPERSE_DOTS |->
           IF i <= DISPERSE_TARGETS THEN L.mother_color
           ELSE COLORS_LIST[colorOf(i - DISPERSE_TARGETS)]]

\* _initialize_bouncing_dots: one dot per dispersing particle.
InitializeBouncingDots(L) ==
    LET dots == [i \in 1..Len(L.disperse_particles) |->
                    [color |-> L.disperse_particles[i],
                     target |-> (L.disperse_particles[i] = L.mother_color),
                     alive |-> TRUE]]
    IN [L EXCEPT !.dots = dots, !.target_dots_left = CountTargets(dots)]

\* _generate_new_dots: the purge of dead dots, and how many dots and targets
\* _create_new_dots is asked for (L is the level after the switch to the new
\* target color).
PurgedDots(L) == SelectSeq(L.dots, LAMBDA d : d.alive)
NewDotsNeeded(L) == Max(0, DESIRED_TOTAL - Len(PurgedDots(L)))

\* The targets asked for when the dots already of the new color are not counted.
NewTargetsUncounted(L) == NEW_DOTS_COUNT
NewTargetsNeeded(L) ==
    LET existing == Cardinality({k \in 1..Len(PurgedDots(L)) :
                                    PurgedDots(L)[k].color = L.mother_color})
    IN Max(0, NEW_DOTS_COUNT - existing)

\* _create_new_dots: the dots that are not targets (target_dots is limited to
\* total_dots), each of which draws a color.
NewDistractors(L) == NewDotsNeeded(L) - Min(NewTargetsNeeded(L), NewDotsNeeded(L))

\* The colors random.choice(distractor_colors) may give the new distractors.
DistractorColors(L) == {COLORS_LIST[i] : i \in ColorIdx \ {L.color_idx}}

\* _create_new_dots(total_dots, target_dots) on the purged list; cols[j] is the
\* color drawn for the j-th distractor.
CreateNewDots(L, total_dots, target_dots, cols) ==
    LET targets == Min(target_dots, total_dots)
        new == [i \in 1..total_dots |->
                   IF i <= targets
                   THEN [color |-> L.mother_color, target |-> TRUE, alive |-> TRUE]
                   ELSE [color |-> cols[i - targets], target |-> FALSE, alive |-> TRUE]]
    IN PurgedDots(L) \o new

\* _generate_new_dots with the collision gate closed again at each regeneration.
GenerateNewDotsRegate(L, cols) ==
    LET dots == CreateNewDots(L, NewDotsNeeded(L), NewTargetsNeeded(L), cols)
    IN [L EXCEPT !.dots = dots, !.target_dots_left = CountTargets(dots),
                 !.collision_enabled = FALSE]

\* _generate_new_dots after its _switch_target_color (L is the level after the
\* switch).
GenerateNewDots(L, cols) ==
    LET dots == CreateNewDots(L, NewDotsNeeded(L), NewTargetsNeeded(L), cols)
    IN [L EXCEPT !.dots = dots, !.target_dots_left = CountTargets(dots)]

\* _handle_target_hit without the total_dots_destroyed increment.
HandleTargetHitNoTotal(L, i) ==
    [L EXCEPT !.dots[i].alive = FALSE,
              !.target_dots_left = @ - 1,
              !.overall_destroyed = @ + 1,
              !.current_color_dots_destroyed = @ + 1]

\* _handle_target_hit(dot) for the dot at position i, before the color switch.
HandleTargetHit(L, i) ==
    [L EXCEPT !.dots[i].alive = FALSE,
              !.target_dots_left = @ - 1,
              !.overall_destroyed = @ + 1,
              !.current_color_dots_destroyed = @ + 1,
              !.total_dots_destroyed = @ + 1]

\* resume_from_checkpoint() that trusts the count it finds.
ResumeKeepingCount(L) ==
    [L EXCEPT !.collision_enabled = IF L.color_changed /\ ~L.collision_enabled
                                    THEN TRUE ELSE L.collision_enabled]

\* resume_from_checkpoint()
ResumeFromCheckpoint(L) ==
    [L EXCEPT !.collision_enabled = IF L.color_changed /\ ~L.collision_enabled
                                    THEN TRUE ELSE L.collision_enabled,
              !.target_dots_left = CountTargets(L.dots)]

\* cleanup()
Cleanup(L) ==
    [L EXCEPT !.dots = <<>>, !.disperse_particles = <<>>, !.initialized = FALSE]

NoCheckpoint == [taken |-> FALSE, color_idx |-> 0, used_colors |-> <<>>,
                 target_dots_left |-> 0, dots |-> <<>>]

ClIdle ==
    /\ level = FreshLevel(1)
    /\ cl_run = "ended"
    /\ cl_status = "NONE"
    /\ cl_last = [ev |-> "idle", status |-> "NONE", collision_phase |-> FALSE]
    /\ cl_checkpoint = NoCheckpoint
    /\ cl_switched = FALSE

\* start_colors_level_instance up to the loop: ColorsLevel(...) and initialize(),
\* whose _select_target_color draws the first target color.
ClInit ==
    /\ \E pick \in ColorIdx : level = FreshLevel(pick)
    /\ cl_run = "running"
    /\ cl_status = "NONE"
    /\ cl_last = [ev |-> "init", status |-> "NONE", collision_phase |-> FALSE]
    /\ cl_checkpoint = NoCheckpoint
    /\ cl_switched = FALSE

\* The checkpoint history: the level as handle_event returned "CHECKPOINT".
Snapshot(L) ==
    [taken |-> TRUE, color_idx |-> L.color_idx, used_colors |-> L.used_colors,
     target_dots_left |-> L.target_dots_left, dots |-> L.dots]

\* The runner's reaction to a status that ends its loop: break, then cleanup().
ClEnd(L, status, ev) ==
    /\ level' = Cleanup(L)
    /\ cl_run' = "ended"
    /\ cl_status' = status
    /\ cl_last' = [ev |-> ev, status |-> status, collision_phase |-> FALSE]
    /\ cl_checkpoint' = IF status = "CHECKPOINT" THEN Snapshot(L) ELSE NoCheckpoint

\* handle_event returned None: the loop goes on.
ClGoOn(L, ev) ==
    /\ level' = L
    /\ cl_run' = "running"
    /\ cl_status' = "NONE"
    /\ cl_last' = [ev |-> ev, status |-> "NONE", collision_phase |-> FALSE]
    /\ cl_checkpoint' = NoCheckpoint

\* One pass of the runner's loop without events: update(delta_time), then
\* draw(screen), which takes the shake offset.
ClTick ==
    /\ cl_run = "running"
    /\ FxGetShakeOffset
    /\ cl_run' = cl_run
    /\ cl_status' = cl_status
    /\ cl_checkpoint' = NoCheckpoint
    /\ CASE level.dots_state = "MOTHER_VIBRATION" ->
              /\ level' = [level EXCEPT
                             !.state_timer = @ - 1,
                             !.dots_state = IF level.state_timer - 1 <= 0
                                            THEN "WAITING_FOR_CLICK" ELSE @]
              /\ cl_last' = [ev |-> "tick", status |-> "NONE", collision_phase |-> FALSE]
              /\ cl_switched' = cl_switched
         [] level.dots_state = "DISPERSION" ->
              /\ level' = IF level.state_timer - 1 <= 0
                          THEN [InitializeBouncingDots([level EXCEPT !.state_timer = @ - 1])
                                  EXCEPT !.dots_state = "GAMEPLAY"]
                          ELSE [level EXCEPT !.state_timer = @ - 1]
              /\ cl_last' = [ev |-> "tick", status |-> "NONE", collision_phase |-> FALSE]
              /\ cl_switched' = cl_switched
         [] level.dots_state = "GAMEPLAY" ->
              \* _update_dots runs its collision phase iff collision_enabled;
              \* then the regeneration when no target is left.
              /\ IF level.target_dots_left <= 0
                 THEN /\ \E pick \in SelectChoices(level) :
                           LET S == SwitchTargetColor(level, pick) IN
                           \E cols \in [1..NewDistractors(S) -> DistractorColors(S)] :
                               level' = GenerateNewDots(S, cols)
                      /\ cl_last' = [ev |-> "regen", status |-> "NONE",
                                     collision_phase |-> level.collision_enabled]
                      /\ cl_switched' = TRUE
                 ELSE /\ level' = level
                      /\ cl_last' = [ev |-> "tick", status |-> "NONE",
                                     collision_phase |-> level.collision_enabled]
                      /\ cl_switched' = cl_switched
         [] OTHER ->
              /\ level' = level
              /\ cl_last' = [ev |-> "tick", status |-> "NONE", collision_phase |-> FALSE]
              /\ cl_switched' = cl_switched

\* The alive dots a click can be within DOT_CLICK_RADIUS of.
NearSets(L) ==
    {near \in SUBSET {k \in 1..Len(L.dots) : L.dots[k].alive} : Cardinality(near) <= MaxNear}

\* The first dot of the list within the radius: where the loop stops.
FirstNear(near) == CHOOSE k \in near : \A m \in near : k <= m

\* handle_event for MOUSEBUTTONDOWN (button 1) or FINGERDOWN at a point within
\* the click radius of exactly the alive dots in `near`.
ClClick(kind, near) ==
    /\ cl_run = "running"
    /\ CASE level.dots_state = "WAITING_FOR_CLICK" /\ kind = "mouse" /\ near = {} ->
              /\ ClGoOn([level EXCEPT !.dots_state = "DISPERSION",
                                      !.state_timer = DISPERSE_FRAMES,
                                      !.disperse_particles = DisperseColors(level)],
                        "start")
              /\ UNCHANGED <<varsFx, cl_switched>>
         [] level.dots_state = "GAMEPLAY" /\ near # {} /\ level.dots[FirstNear(near)].target ->
              /\ level.total_dots_destroyed < MaxHits
              /\ LET H == HandleTargetHit(level, FirstNear(near))
                     rotate == H.current_color_dots_destroyed >= TARGET_QUOTA
                 IN \E pick \in (IF rotate THEN SelectChoices(H) ELSE {H.color_idx}) :
                      LET S == IF rotate THEN SwitchTargetColor(H, pick) ELSE H IN
                      /\ IF S.total_dots_destroyed % CHECKPOINT_TRIGGER = 0
                         THEN ClEnd(S, "CHECKPOINT", IF rotate THEN "rotate" ELSE "hit")
                         ELSE ClGoOn(S, IF rotate THEN "rotate" ELSE "hit")
                      /\ cl_switched' = (cl_switched \/ rotate)
              /\ UNCHANGED varsFx
         [] level.dots_state = "GAMEPLAY" /\ near # {} /\ ~level.dots[FirstNear(near)].target ->
              \* the loop stops at a non-target dot: "blocked" if a target dot
              \* further down the list is within the radius too
              /\ ClGoOn(level, IF \E k \in near : level.dots[k].target
                               THEN "blocked" ELSE "nontarget")
              /\ UNCHANGED <<varsFx, cl_switched>>
         [] level.dots_state = "GAMEPLAY" /\ near = {} ->
              /\ FxMiss
              /\ IF fx_last'.ret
                 THEN ClEnd(level, "GAME_OVER", "miss")
                 ELSE ClGoOn(level, "miss")
              /\ cl_switched' = cl_switched
         [] OTHER ->
              /\ near = {}
              /\ ClGoOn(level, "ignored")
              /\ UNCHANGED <<varsFx, cl_switched>>

\* handle_event for QUIT ("QUIT") or KEYDOWN Escape ("LEVEL_MENU").
ClExit(status) ==
    /\ cl_run = "running"
    /\ ClEnd(level, status, "exit")
    /\ UNCHANGED <<varsFx, cl_switched>>

\* start_colors_level_instance called again: a new ColorsLevel, initialize().
ClRestart ==
    /\ cl_run = "ended"
    /\ \E pick \in ColorIdx : level' = FreshLevel(pick)
    /\ cl_run' = "running"
    /\ cl_status' = "NONE"
    /\ cl_last' = [ev |-> "restart", status |-> "NONE", collision_phase |-> FALSE]
    /\ cl_checkpoint' = NoCheckpoint
    /\ cl_switched' = FALSE
    /\ UNCHANGED varsFx

\* resume_from_checkpoint() on the instance the runner left after "CHECKPOINT".
ClResume ==
    /\ cl_run = "ended"
    /\ cl_status = "CHECKPOINT"
    /\ level' = ResumeFromCheckpoint(level)
    /\ cl_run' = "running"
    /\ cl_status' = "NONE"
    /\ cl_last' = [ev |-> "resume", status |-> "NONE", collision_phase |-> FALSE]
    /\ cl_checkpoint' = NoCheckpoint
    /\ cl_switched' = cl_switched
    /\ UNCHANGED varsFx

\* resume_from_checkpoint() called on the level while its loop is running.
ClResumeRunning ==
    /\ cl_run = "running"
    /\ level' = ResumeFromCheckpoint(level)
    /\ cl_last' = [ev |-> "resume", status |-> "NONE", collision_phase |-> FALSE]
    /\ UNCHANGED <<varsFx, cl_run, cl_status, cl_checkpoint, cl_switched>>

\* ------------------------------------------------------------------------
\* ColorsLevel._update_dots: spatial grid and pair enumeration
\* ------------------------------------------------------------------------
\* The placement is the one the first loop of _update_dots buckets: positions
\* after integration and wall clamping. _check_collision is not entered here;
\* only the order of its calls is of interest.
GdNumDots == 3              \* number of dots in the list
ENABLE_COLLISION_GRID == TRUE   \* settings.py
COLLISION_GRID_SIZE == 100  \* settings.py: self.grid_cell_size
DOT_RADIUS == 24            \* settings.py: radius of every dot
\* Dot centers the model draws from: within a cell, on both sides of a cell
\* border, and two cells apart.
GdXs == {24, 99, 100, 250}
GdYs == {24, 130, 250}

RECURSIVE Concat(_)
\* The concatenation of a sequence of sequences.
Concat(ss) == IF ss = <<>> THEN <<>> ELSE Head(ss) \o Concat(Tail(ss))

\* cell_key = (int(x / grid_cell_size), int(y / grid_cell_size)), x, y >= 0
CellKey(d) == <<d.x \div COLLISION_GRID_SIZE, d.y \div COLLISION_GRID_SIZE>>

\* The indices of the alive dots, in list order: the dots that get bucketed.
AliveIdx(dots) == SelectSeq([k \in 1..Len(dots) |-> k], LAMBDA k : dots[k].alive)

RECURSIVE Dedup(_)
\* The first occurrences of a sequence's elements, in order.
Dedup(seq) ==
    IF seq = <<>> THEN <<>>
    ELSE LET init == SubSeq(seq, 1, Len(seq) - 1)
             last == seq[Len(seq)]
         IN IF InList(last, init) THEN Dedup(init) ELSE Append(Dedup(init), last)

\* self.grid.keys(): the cells in the order their first dot was bucketed.
GridKeys(dots) ==
    Dedup([k \in 1..Len(AliveIdx(dots)) |-> CellKey(dots[AliveIdx(dots)[k]])])

\* self.grid[key]: the dots of a cell in list order; <<>> if key not in grid.
GridCell(dots, key) == SelectSeq(AliveIdx(dots), LAMBDA k : CellKey(dots[k]) = key)

\* All eight surrounding cells.
NeighborsAllEight(gx, gy) ==
    << <<gx + 1, gy>>, <<gx + 1, gy + 1>>, <<gx, gy + 1>>, <<gx - 1, gy + 1>>,
       <<gx - 1, gy>>, <<gx - 1, gy - 1>>, <<gx, gy - 1>>, <<gx + 1, gy - 1>> >>

\* neighbors: right, bottom-right, bottom, bottom-left.
Neighbors(gx, gy) ==
    << <<gx + 1, gy>>, <<gx + 1, gy + 1>>, <<gx, gy + 1>>, <<gx - 1, gy + 1>> >>

\* The calls made for dot1 = dots_in_cell[i]: the later dots of its cell, then
\* the dots of each forward neighbor that is in the grid.
PairsOfDot(dots, key, i) ==
    LET cell == GridCell(dots, key)
        same == [j \in 1..(Len(cell) - i) |-> <<cell[i], cell[i + j]>>]
        nbs == Neighbors(key[1], key[2])
        across == [n \in 1..Len(nbs) |->
                      [j \in 1..Len(GridCell(dots, nbs[n])) |->
                          <<cell[i], GridCell(dots, nbs[n])[j]>>]]
    IN same \o Concat(across)

PairsOfCell(dots, key) ==
    Concat([i \in 1..Len(GridCell(dots, key)) |-> PairsOfDot(dots, key, i)])

\* The fallback when the grid is disabled: all pairs i < j of alive dots.
PairsAll(dots) ==
    LET alive == AliveIdx(dots) IN
    Concat([i \in 1..Len(alive) |->
               [j \in 1..(Len(alive) - i) |-> <<alive[i], alive[i + j]>>]])

\* The collision phase of _update_dots: the sequence of _check_collision calls.
CollisionPairs(dots, enabled) ==
    IF ~enabled THEN <<>>
    ELSE IF ENABLE_COLLISION_GRID
         THEN Concat([c \in 1..Len(GridKeys(dots)) |-> PairsOfCell(dots, GridKeys(dots)[c])])
         ELSE PairsAll(dots)

GdIdle ==
    /\ gd_dots = <<>>
    /\ gd_enabled = FALSE
    /\ gd_pairs = <<>>
    /\ gd_done = FALSE

GdInit ==
    /\ gd_dots \in [1..GdNumDots -> [x : GdXs, y : GdYs, alive : BOOLEAN]]
    /\ gd_enabled \in BOOLEAN
    /\ gd_pairs = <<>>
    /\ gd_done = FALSE

GdCollisionPhase ==
    /\ ~gd_done
    /\ gd_pairs' = CollisionPairs(gd_dots, gd_enabled)
    /\ gd_done' = TRUE
    /\ UNCHANGED <<gd_dots, gd_enabled>>

\* ------------------------------------------------------------------------
\* The grid cell size as an input (levels/colors_level.py, utils/particle_system.py)
\*
\* Both constructors copy COLLISION_GRID_SIZE into self.grid_cell_size; the
\* value is first used when a dot or particle is bucketed.
\* ------------------------------------------------------------------------
GcSizes == {-100, -1, 0, 1, 50, 100}

\* int(a / b) for a >= 0: the quotient truncated toward zero; b /= 0.
TruncQuot(a, b) == IF b > 0 THEN a \div b ELSE -(a \div (-b))

\* int(a // b) for a >= 0: the quotient rounded down; b /= 0.
FloorQuot(a, b) == IF b > 0 THEN a \div b ELSE -((a + (-b) - 1) \div (-b))

\* ColorsLevel.__init__: self.grid_cell_size = COLLISION_GRID_SIZE, unchecked.
GcLevelConstructed(size) == [stage |-> "constructed", key |-> <<>>]

\* ColorsLevel.initialize: no use of the cell size; returns True.
GcLevelInitialized(size) == [stage |-> "initialized", key |-> <<>>]

\* The bucketing of one alive dot in ColorsLevel._update_dots.
GcLevelBucket(size, point) ==
    IF size = 0 THEN [stage |-> "ZeroDivisionError", key |-> <<>>]
    ELSE [stage |-> "ticked",
          key |-> <<TruncQuot(point[1], size), TruncQuot(point[2], size)>>]

\* ParticleSystem.__init__: self.grid_cell_size = COLLISION_GRID_SIZE, unchecked.
GcSystemConstructed(size) == [stage |-> "constructed", key |-> <<>>]

\* The bucketing of one active particle in ParticleSystem.update.
GcSystemBucket(size, point) ==
    IF size = 0 THEN [stage |-> "ZeroDivisionError", key |-> <<>>]
    ELSE [stage |-> "ticked",
          key |-> <<FloorQuot(point[1], size), FloorQuot(point[2], size)>>]

GcIdle ==
    /\ gc_cell_size = COLLISION_GRID_SIZE
    /\ gc_point = <<0, 0>>
    /\ gc_level = [stage |-> "none", key |-> <<>>]
    /\ gc_system = [stage |-> "none", key |-> <<>>]

GcInit ==
    /\ gc_cell_size \in GcSizes
    /\ gc_point \in GdXs \X GdYs
    /\ gc_level = [stage |-> "none", key |-> <<>>]
    /\ gc_system = [stage |-> "none", key |-> <<>>]

\* ColorsLevel(...)
GcLevelConstruct ==
    /\ gc_level.stage = "none"
    /\ gc_level' = GcLevelConstructed(gc_cell_size)
    /\ UNCHANGED <<gc_cell_size, gc_point, gc_system>>

\* level.initialize()
GcLevelInitialize ==
    /\ gc_level.stage = "constructed"
    /\ gc_level' = GcLevelInitialized(gc_cell_size)
    /\ UNCHANGED <<gc_cell_size, gc_point, gc_system>>

\* One tick of the level with one alive dot at gc_point.
GcLevelUpdateDots ==
    /\ gc_level.stage \in {"initialized", "ticked"}
    /\ gc_level' = GcLevelBucket(gc_cell_size, gc_point)
    /\ UNCHANGED <<gc_cell_size, gc_point, gc_system>>

\* ParticleSystem(width, height)
GcSystemConstruct ==
    /\ gc_system.stage = "none"
    /\ gc_system' = GcSystemConstructed(gc_cell_size)
    /\ UNCHANGED <<gc_cell_size, gc_point, gc_level>>

\* One update of the system with one active particle at gc_point.
GcSystemUpdate ==
    /\ gc_system.stage \in {"constructed", "ticked"}
    /\ gc_system' = GcSystemBucket(gc_cell_size, gc_point)
    /\ UNCHANGED <<gc_cell_size, gc_point, gc_level>>

\* ------------------------------------------------------------------------
\* ColorsLevel._check_collision (levels/colors_level.py)
\*
\* Positions, radii and velocities are fixed-point numbers in 1/100 pixel;
\* the unit normal is kept in 1/10000. Every arithmetic step of the source
\* is one step here, rounded to the nearest unit, as each floating-point
\* step of the source is rounded to the nearest float.
\* ------------------------------------------------------------------------
DOT_SPEED_REDUCTION == 80   \* settings.py: 0.8, in 1/100

\* a / b rounded to the nearest integer (b > 0)
RoundDiv(a, b) == (2 * a + b) \div (2 * b)

\* The largest r in lo..hi with r * r <= n.
RECURSIVE SqrtSearch(_, _, _)
SqrtSearch(n, lo, hi) ==
    IF lo = hi THEN lo
    ELSE LET mid == (lo + hi + 1) \div 2
         IN IF mid * mid <= n THEN SqrtSearch(n, mid, hi) ELSE SqrtSearch(n, lo, mid - 1)

\* math.hypot(dx, dy), rounded to the nearest unit
Hypot(dx, dy) ==
    LET n == dx * dx + dy * dy
        r == SqrtSearch(n, 0, 46340)
    IN IF n - r * r > r THEN r + 1 ELSE r

\* distance between the centers of two dots
CenterDistance(dot1, dot2) == Hypot(dot1.x - dot2.x, dot1.y - dot2.y)

\* The direction vector <<nx, ny>> in 1/10000: normalized, or the default
\* <<1, 0>> for dots at the same position.
CollisionNormal(dx, dy, distance) ==
    IF distance > 0
    THEN <<RoundDiv(dx * 10000, distance), RoundDiv(dy * 10000, distance)>>
    ELSE <<10000, 0>>

\* velocity_along_normal (its sign is what the source tests), in 1/10^6
VelocityAlongNormal(dot1, dot2, n) ==
    (dot1.dx - dot2.dx) * n[1] + (dot1.dy - dot2.dy) * n[2]

\* separation_factor in 1/100: 1.0, or 2.0 + (5 - distance) * 0.5 below 5 pixels
SeparationFactor(distance) ==
    IF distance < 500 THEN 200 + RoundDiv(500 - distance, 2) ELSE 100

\* A separation that moves each dot a quarter of the overlap.
SeparationPushQuarter(overlap, ncomp, factor) ==
    RoundDiv(RoundDiv(RoundDiv(overlap, 4) * ncomp, 10000) * factor, 100)

\* overlap/2 * nx * separation_factor: what is added to dot1's coordinate and
\* subtracted from dot2's.
SeparationPush(overlap, ncomp, factor) ==
    RoundDiv(RoundDiv(RoundDiv(overlap, 2) * ncomp, 10000) * factor, 100)

\* A response that swaps the velocities without reducing them.
DampedNot(v) == v

\* v * DOT_SPEED_REDUCTION
Damped(v) == RoundDiv(v * DOT_SPEED_REDUCTION, 100)

\* The branch of a handled collision.
CollisionBranch(distance) == IF distance < 500 THEN "emergency" ELSE "standard"

\* _check_collision(dot1, dot2) without its particles: the return value, the
\* branch taken and the two dots after the call. emergency is the four
\* random.uniform(-8, 8) draws, jitter the four random.uniform(-0.1, 0.1)
\* draws, both in the order of the source.
CheckCollision(dot1, dot2, emergency, jitter) ==
    LET dx == dot1.x - dot2.x
        dy == dot1.y - dot2.y
        distance == Hypot(dx, dy)
        n == CollisionNormal(dx, dy, distance)
        overlap == (dot1.radius + dot2.radius) - distance
        factor == SeparationFactor(distance)
        branch == CollisionBranch(distance)
        v1 == IF branch = "emergency" THEN <<emergency[1], emergency[2]>>
              ELSE <<Damped(dot2.dx), Damped(dot2.dy)>>
        v2 == IF branch = "emergency" THEN <<emergency[3], emergency[4]>>
              ELSE <<Damped(dot1.dx), Damped(dot1.dy)>>
    IN IF distance < dot1.radius + dot2.radius /\ VelocityAlongNormal(dot1, dot2, n) < 0
       THEN [ret |-> TRUE, branch |-> branch,
             dot1 |-> [dot1 EXCEPT !.x = @ + SeparationPush(overlap, n[1], factor),
                                   !.y = @ + SeparationPush(overlap, n[2], factor),
                                   !.dx = v1[1] + jitter[1],
                                   !.dy = v1[2] + jitter[2]],
             dot2 |-> [dot2 EXCEPT !.x = @ - SeparationPush(overlap, n[1], factor),
                                   !.y = @ - SeparationPush(overlap, n[2], factor),
                                   !.dx = v2[1] + jitter[3],
                                   !.dy = v2[2] + jitter[4]]]
       ELSE [ret |-> FALSE, branch |-> "none", dot1 |-> dot1, dot2 |-> dot2]

\* ParticleManager.create_particle called with the given particle: the pool
\* and the list after the call, and where the particle went.
PmCreate(pool, particles, made) ==
    LET g == PmGetParticle(pool, particles)
    IN [pool |-> IF g.where = "pool" THEN [g.pool EXCEPT ![g.slot] = made] ELSE g.pool,
        particles |-> IF g.where = "list" THEN [g.particles EXCEPT ![g.slot] = made]
                      ELSE g.particles,
        where |-> g.where]

\* The particle of one iteration of the loop at the end of _check_collision.
CollisionParticle(dot1, dot2, draw) ==
    [x |-> (dot1.x + dot2.x) \div 2, y |-> (dot1.y + dot2.y) \div 2,
     color |-> IF draw.first THEN dot1.color ELSE dot2.color,
     size |-> draw.size, dx |-> 0, dy |-> 0, duration |-> 10, start_duration |-> 10,
     active |-> TRUE]

\* The sampled outcomes of the random draws.
\* four random.uniform(-8, 8)
CdEmergencyDraws == {<<-800, -800, -800, -800>>, <<800, 800, 800, 800>>, <<0, 0, 0, 0>>,
                     <<800, -800, -800, 800>>, <<-250, 713, 1, -600>>}
\* four random.uniform(-0.1, 0.1)
CdJitterDraws == {<<-10, -10, -10, -10>>, <<10, 10, 10, 10>>, <<0, 0, 0, 0>>,
                  <<10, -10, -10, 10>>, <<-10, 10, 10, -10>>, <<3, -7, 0, 10>>}
\* random.choice([dot1["color"], dot2["color"]]) and random.randint(5, 10)
CdParticleDraws == {[first |-> TRUE, size |-> 5], [first |-> FALSE, size |-> 10]}

\* The pairs the calls are made on: dot2 at (300, 300), dot1 at an offset.
CdOffsets == {<<0, 0>>, <<300, 0>>, <<0, -400>>, <<300, 400>>, <<400, 400>>, <<1000, 1000>>,
              <<2400, 3200>>, <<-4000, 0>>, <<0, 4700>>, <<4800, 0>>, <<6000, 100>>}
CdVelocities == {<<<<-600, 0>>, <<600, 0>>>>, <<<<600, 0>>, <<-600, 0>>>>,
                 <<<<0, -600>>, <<0, 600>>>>, <<<<0, 600>>, <<0, -600>>>>,
                 <<<<-360, -480>>, <<360, 480>>>>, <<<<-424, -424>>, <<424, 424>>>>,
                 <<<<0, 0>>, <<0, 0>>>>, <<<<300, 0>>, <<300, 0>>>>,
                 <<<<-800, 300>>, <<0, 0>>>>, <<<<5, 0>>, <<15, 600>>>>}

CdDot(x, y, v, radius, color) ==
    [x |-> x, y |-> y, dx |-> v[1], dy |-> v[2], radius |-> radius, color |-> color]

CdNoDot == CdDot(0, 0, <<0, 0>>, 0, "black")

CdIdle ==
    /\ cd_dot1 = CdNoDot
    /\ cd_dot2 = CdNoDot
    /\ cd_pre = <<CdNoDot, CdNoDot>>
    /\ cd_last = [op |-> "init", ret |-> FALSE, branch |-> "none"]

CdInit ==
    /\ \E off \in CdOffsets, v \in CdVelocities :
          /\ cd_dot1 = CdDot(30000 + off[1], 30000 + off[2], v[1], 100 * DOT_RADIUS, "Red")
          /\ cd_dot2 = CdDot(30000, 30000, v[2], 100 * DOT_RADIUS, "Blue")
    /\ cd_pre = <<cd_dot1, cd_dot2>>
    /\ cd_last = [op |-> "init", ret |-> FALSE, branch |-> "none"]

\* The draws of a call that takes the given branch: no draw is made by a
\* call that returns False, and the emergency draws only in that branch.
CdNoDraw == <<0, 0, 0, 0>>
CdEmergencyOf(branch) == IF branch = "emergency" THEN CdEmergencyDraws ELSE {CdNoDraw}
CdJitterOf(branch) == IF branch = "none" THEN {CdNoDraw} ELSE CdJitterDraws
CdParticlesOf(branch) ==
    IF branch = "none" THEN {[k \in 1..3 |-> [first |-> TRUE, size |-> 5]]}
    ELSE [1..3 -> CdParticleDraws]

\* self._check_collision(dot1, dot2), with the three particles it creates
\* through self.particle_system (the runner passes the ParticleManager).
CdCheckCollision ==
    LET branch == CheckCollision(cd_dot1, cd_dot2, CdNoDraw, CdNoDraw).branch IN
    \E emergency \in CdEmergencyOf(branch), jitter \in CdJitterOf(branch),
       draws \in CdParticlesOf(branch) :
        LET r == CheckCollision(cd_dot1, cd_dot2, emergency, jitter)
            p1 == PmCreate(pm_pool, pm_particles, CollisionParticle(r.dot1, r.dot2, draws[1]))
            p2 == PmCreate(p1.pool, p1.particles, CollisionParticle(r.dot1, r.dot2, draws[2]))
            p3 == PmCreate(p2.pool, p2.particles, CollisionParticle(r.dot1, r.dot2, draws[3]))
        IN
        /\ cd_dot1' = r.dot1
        /\ cd_dot2' = r.dot2
        /\ cd_pre' = <<cd_dot1, cd_dot2>>
        /\ cd_last' = [op |-> "check", ret |-> r.ret, branch |-> r.branch]
        /\ IF r.ret
           THEN /\ pm_pool' = p3.pool
                /\ pm_particles' = p3.particles
                /\ pm_last' = [op |-> "create", where |-> p3.where]
           ELSE UNCHANGED varsPM

\* ------------------------------------------------------------------------
\* ColorsLevel._update_dots: integration, wall bounce, collision phase
\*
\* Two alive dots in the arena, in the fixed-point units of _check_collision.
\* The calls modelled are those that find both dots outside the radius of
\* _apply_center_avoidance, which then changes nothing.
\* ------------------------------------------------------------------------
ArenaWidth == 80000         \* self.width (800 pixels)
ArenaHeight == 60000        \* self.height (600 pixels)
CENTER_AVOIDANCE_RADIUS == 150     \* _apply_center_avoidance: center_avoidance_radius, pixels
BnMaxTicks == 2             \* the model stops after this many _update_dots calls
BnFrameMs == {16, 20}       \* delta_time of a frame, in milliseconds

\* dot["dx"] * delta_time * 50
BnStep(v, ms) == RoundDiv(v * ms, 20)

\* One axis of "Bounce off walls": the two tests in the order of the source.
BounceAxis(pos, vel, radius, limit) ==
    LET low == IF pos - radius < 0
               THEN [p |-> radius, v |-> -vel]
               ELSE [p |-> pos, v |-> vel]
    IN IF low.p + radius > limit
       THEN [p |-> limit - radius, v |-> -low.v]
       ELSE low

\* The position update of one dot: integration, then the bounce per axis.
UpdateDotPosition(dot, ms) ==
    LET bx == BounceAxis(dot.x + BnStep(dot.dx, ms), dot.dx, dot.radius, ArenaWidth)
        by == BounceAxis(dot.y + BnStep(dot.dy, ms), dot.dy, dot.radius, ArenaHeight)
    IN [dot EXCEPT !.x = bx.p, !.dx = bx.v, !.y = by.p, !.dy = by.v]

\* _apply_center_avoidance leaves the dot alone: its distance from the center,
\* taken in whole pixels toward the center, is not below the radius.
OutsideAvoidance(dot) ==
    LET cx == dot.x - ArenaWidth \div 2
        cy == dot.y - ArenaHeight \div 2
        ax == (IF cx >= 0 THEN cx ELSE -cx) \div 100
        ay == (IF cy >= 0 THEN cy ELSE -cy) \div 100
    IN ax * ax + ay * ay >= CENTER_AVOIDANCE_RADIUS * CENTER_AVOIDANCE_RADIUS

\* The dots as the grid sees them: whole pixels, alive.
BnGridDots(dots) ==
    [i \in 1..Len(dots) |-> [x |-> dots[i].x \div 100, y |-> dots[i].y \div 100, alive |-> TRUE]]

\* The placements the runs start from: dot1 next to a wall or in a corner,
\* dot2 at an offset from it, inside the arena.
BnDot1Positions == {<<2600, 10000>>, <<77400, 10000>>, <<10000, 2600>>, <<10000, 57400>>,
                    <<2600, 2600>>}
BnDot1Velocities == {<<-600, 0>>, <<600, 200>>, <<0, -600>>, <<-500, 500>>}
BnDot2Offsets == {<<4000, 0>>, <<0, 4000>>, <<200, 0>>, <<20000, 20000>>}
BnDot2Velocities == {<<100, 0>>, <<0, 100>>, <<-600, -600>>}

BnInArena(dot) ==
    /\ dot.x - dot.radius >= 0 /\ dot.x + dot.radius <= ArenaWidth
    /\ dot.y - dot.radius >= 0 /\ dot.y + dot.radius <= ArenaHeight

BnIdle ==
    /\ bn_dots = <<CdNoDot, CdNoDot>>
    /\ bn_pre = <<CdNoDot, CdNoDot>>
    /\ bn_bounced = <<CdNoDot, CdNoDot>>
    /\ bn_last = [op |-> "init", ms |-> 0, collided |-> FALSE]
    /\ bn_ticks = 0

BnInit ==
    /\ \E p \in BnDot1Positions, v \in BnDot1Velocities,
          off \in BnDot2Offsets, w \in BnDot2Velocities :
          /\ bn_dots = <<CdDot(p[1], p[2], v, 100 * DOT_RADIUS, "Red"),
                         CdDot(p[1] + off[1], p[2] + off[2], w, 100 * DOT_RADIUS, "Blue")>>
          /\ BnInArena(bn_dots[2])
    /\ bn_pre = bn_dots
    /\ bn_bounced = bn_dots
    /\ bn_last = [op |-> "init", ms |-> 0, collided |-> FALSE]
    /\ bn_ticks = 0

\* self._update_dots(delta_time) with collisions enabled: every dot is moved
\* and bounced, then the grid's pairs go through _check_collision.
BnUpdateDots ==
    /\ bn_ticks < BnMaxTicks
    /\ \A i \in 1..2 : OutsideAvoidance(bn_dots[i])
    /\ \E ms \in BnFrameMs :
       \E moved \in {[i \in 1..2 |-> UpdateDotPosition(bn_dots[i], ms)]} :
       \E pairs \in {CollisionPairs(BnGridDots(moved), TRUE)} :
        /\ bn_pre' = bn_dots
        /\ bn_bounced' = moved
        /\ bn_ticks' = bn_ticks + 1
        /\ IF pairs = <<>>
           THEN /\ bn_dots' = moved
                /\ bn_last' = [op |-> "update", ms |-> ms, collided |-> FALSE]
           ELSE \E i \in {pairs[1][1]}, j \in {pairs[1][2]} :
                \E branch \in {CheckCollision(moved[i], moved[j], CdNoDraw, CdNoDraw).branch} :
                \E emergency \in CdEmergencyOf(branch), jitter \in CdJitterOf(branch) :
                \E r \in {CheckCollision(moved[i], moved[j], emergency, jitter)} :
                     /\ bn_dots' = [k \in 1..2 |-> IF k = i THEN r.dot1 ELSE r.dot2]
                     /\ bn_last' = [op |-> "update", ms |-> ms, collided |-> r.ret]

\* ------------------------------------------------------------------------
\* ColorsLevel: the target classes selected from initialize() on
\* ------------------------------------------------------------------------
SlMaxSelections == 7        \* the model stops after this many selections

SlIdle == sl_selected = <<>>

\* initialize(): the first _select_target_color call, then used_colors = [].
SlInit ==
    /\ \E pick \in ColorIdx :
        /\ level = FreshLevel(pick)
        /\ sl_selected = <<pick>>
    /\ cl_run = "running"
    /\ cl_status = "NONE"
    /\ cl_last = [ev |-> "init", status |-> "NONE", collision_phase |-> FALSE]
    /\ cl_checkpoint = NoCheckpoint
    /\ cl_switched = FALSE

\* _switch_target_color(): the next _select_target_color call.
SlSwitchTargetColor ==
    /\ Len(sl_selected) < SlMaxSelections
    /\ \E pick \in SelectChoices(level) :
        /\ level' = SwitchTargetColor(level, pick)
        /\ sl_selected' = Append(sl_selected, pick)
    /\ cl_last' = [ev |-> "switch", status |-> "NONE", collision_phase |-> FALSE]
    /\ cl_switched' = TRUE
    /\ UNCHANGED <<cl_run, cl_status, cl_checkpoint>>

\* ------------------------------------------------------------------------
\* start_colors_level_instance: the loop that runs a ColorsLevel
\*
\* An input event is represented by the status handle_event returns for it.
\* ------------------------------------------------------------------------
RnMaxIterations == 3        \* the model stops after this many loop iterations
RnMaxEvents == 2            \* at most this many events are pending in one iteration

\* The values handle_event returns ("NONE" for None).
HandleEventStatuses == {"NONE", "QUIT", "LEVEL_MENU", "CHECKPOINT", "GAME_OVER"}

\* status in ["QUIT", "LEVEL_MENU", "CHECKPOINT", "GAME_OVER"]
TerminatingStatuses == {"QUIT", "LEVEL_MENU", "CHECKPOINT", "GAME_OVER"}

\* What ColorsLevel.initialize and ColorsLevel.update return.
InitializeResults == {TRUE}
UpdateResults == {TRUE}

\* pygame.event.get(): the events pending at the start of an iteration.
RnEventLists == UNION {[1..n -> HandleEventStatuses] : n \in 0..RnMaxEvents}

\* final_status if final_status else "LEVEL_MENU"
RnFinalStatus(level_status, last_status) ==
    LET final_status == IF level_status # "NONE" THEN level_status ELSE last_status
    IN IF final_status # "NONE" THEN final_status ELSE "LEVEL_MENU"

RnIdle ==
    /\ rn_pc = "idle"
    /\ rn_pending = <<>>
    /\ rn_running = FALSE
    /\ rn_level_status = "NONE"
    /\ rn_last_status = "NONE"
    /\ rn_ret = "NONE"
    /\ rn_iterations = 0
    /\ rn_got = 0
    /\ rn_iter = <<>>
    /\ rn_calls = <<>>
    /\ rn_term_at = 0

\* The function up to the loop: the level is constructed and initialized.
RnInit ==
    /\ \E ok \in InitializeResults :
        /\ rn_pc = IF ok THEN "tick" ELSE "returned"
        /\ rn_running = ok
        /\ rn_ret = IF ok THEN "NONE" ELSE "ERROR"
    /\ rn_pending = <<>>
    /\ rn_level_status = "NONE"
    /\ rn_last_status = "NONE"
    /\ rn_iterations = 0
    /\ rn_got = 0
    /\ rn_iter = <<>>
    /\ rn_calls = <<>>
    /\ rn_term_at = 0

\* while running: clock.tick(FPS), then pygame.event.get().
RnTick ==
    /\ rn_pc = "tick"
    /\ rn_running
    /\ rn_iterations < RnMaxIterations
    /\ \E events \in RnEventLists :
        /\ rn_pending' = events
        /\ rn_got' = Len(events)
    /\ rn_iter' = <<>>
    /\ rn_pc' = "events"
    /\ UNCHANGED <<rn_running, rn_level_status, rn_last_status, rn_ret,
                   rn_iterations, rn_calls, rn_term_at>>

\* One pass of the for loop that went on to the next event although the
\* status was a terminating one.
RnHandleEventNoBreak ==
    /\ rn_pc = "events"
    /\ rn_pending # <<>>
    /\ LET status == Head(rn_pending) IN
        /\ rn_last_status' = IF status # "NONE" THEN status ELSE rn_last_status
        /\ rn_running' = IF status \in TerminatingStatuses THEN FALSE ELSE rn_running
        /\ rn_level_status' = IF status \in TerminatingStatuses THEN status ELSE rn_level_status
        /\ rn_pc' = "events"
        /\ rn_term_at' = IF status \in TerminatingStatuses /\ rn_term_at = 0
                         THEN Len(rn_calls) + 1 ELSE rn_term_at
    /\ rn_pending' = Tail(rn_pending)
    /\ rn_iter' = Append(rn_iter, "handle_event")
    /\ rn_calls' = Append(rn_calls, "handle_event")
    /\ UNCHANGED <<rn_ret, rn_iterations, rn_got>>

\* One pass of the for loop: handle_event on the next pending event; a
\* terminating status breaks out of the for loop and of the while loop.
RnHandleEvent ==
    /\ rn_pc = "events"
    /\ rn_pending # <<>>
    /\ LET status == Head(rn_pending) IN
        /\ rn_last_status' = IF status # "NONE" THEN status ELSE rn_last_status
        /\ rn_running' = IF status \in TerminatingStatuses THEN FALSE ELSE rn_running
        /\ rn_level_status' = IF status \in TerminatingStatuses THEN status ELSE rn_level_status
        /\ rn_pc' = IF status \in TerminatingStatuses THEN "cleanup" ELSE "events"
        /\ rn_term_at' = IF status \in TerminatingStatuses /\ rn_term_at = 0
                         THEN Len(rn_calls) + 1 ELSE rn_term_at
    /\ rn_pending' = Tail(rn_pending)
    /\ rn_iter' = Append(rn_iter, "handle_event")
    /\ rn_calls' = Append(rn_calls, "handle_event")
    /\ UNCHANGED <<rn_ret, rn_iterations, rn_got>>

\* The for loop is exhausted and running still holds: update(delta_time).
RnUpdate ==
    /\ rn_pc = "events"
    /\ rn_pending = <<>>
    /\ rn_running
    /\ \E ok \in UpdateResults :
        /\ rn_running' = ok
        /\ rn_level_status' = IF ok THEN rn_level_status ELSE "LEVEL_MENU"
        /\ rn_pc' = IF ok THEN "draw" ELSE "cleanup"
    /\ rn_iter' = Append(rn_iter, "update")
    /\ rn_calls' = Append(rn_calls, "update")
    /\ UNCHANGED <<rn_pending, rn_last_status, rn_ret, rn_iterations, rn_got, rn_term_at>>

\* draw(screen), the end of the iteration.
RnDraw ==
    /\ rn_pc = "draw"
    /\ rn_iter' = Append(rn_iter, "draw")
    /\ rn_calls' = Append(rn_calls, "draw")
    /\ rn_iterations' = rn_iterations + 1
    /\ rn_pc' = "tick"
    /\ UNCHANGED <<rn_pending, rn_running, rn_level_status, rn_last_status, rn_ret,
                   rn_got, rn_term_at>>

\* After the loop: cleanup(), then the status is returned.
RnCleanup ==
    /\ rn_pc = "cleanup"
    /\ rn_calls' = Append(rn_calls, "cleanup")
    /\ rn_ret' = RnFinalStatus(rn_level_status, rn_last_status)
    /\ rn_pc' = "returned"
    /\ UNCHANGED <<rn_pending, rn_running, rn_level_status, rn_last_status,
                   rn_iterations, rn_got, rn_iter, rn_term_at>>

\* ------------------------------------------------------------------------
\* TouchManager (systems/multitouch.py)
\*
\* An event is a record: finger events carry finger_id and the normalised
\* x, y; mouse events carry neither (pygame gives them pos), so reading
\* event.x of a mouse event raises AttributeError.
\* ------------------------------------------------------------------------
TmMaxTouches == 3           \* no down event is modelled once next_touch_id reached this

TmFingerIds == {0, 1}                       \* event.finger_id of the fingers on the screen
TmEventPoints == {<<0, 0>>, <<1, 1>>}       \* (event.x, event.y), normalised to the surface
TmSurfaceSize == <<800, 600>>               \* pygame.display.get_surface(): width, height
TmTouchIds == 0..(TmMaxTouches - 1)

TmFingerEvents ==
    [type : {"FINGERDOWN", "FINGERUP", "FINGERMOTION"}, finger : {TRUE},
     finger_id : TmFingerIds, point : TmEventPoints]
TmMouseEvents ==
    [type : {"MOUSEBUTTONDOWN", "MOUSEBUTTONUP", "MOUSEMOTION"}, finger : {FALSE},
     finger_id : {0}, point : {<<0, 0>>}]
TmEvents == TmFingerEvents \cup TmMouseEvents

TmDownTypes == {"FINGERDOWN", "MOUSEBUTTONDOWN"}
TmUpTypes == {"FINGERUP", "MOUSEBUTTONUP"}
TmMotionTypes == {"FINGERMOTION", "MOUSEMOTION"}

\* The finger, or the mouse, an event comes from.
TmSource(event) == <<event.finger, event.finger_id>>

TmNoTouch == [present |-> FALSE, id |-> 0, pos |-> <<0, 0>>, is_down |-> FALSE, is_move |-> FALSE]

\* Touch(touch_id, pos, True, False)
Touch(touch_id, pos, is_down, is_move) ==
    [present |-> TRUE, id |-> touch_id, pos |-> pos, is_down |-> is_down, is_move |-> is_move]

\* (event.x * width, event.y * height)
TmPos(event) == <<event.point[1] * TmSurfaceSize[1], event.point[2] * TmSurfaceSize[2]>>

\* event.finger_id if hasattr(event, 'finger_id') else 0
TmLookupId(event) == IF event.finger THEN event.finger_id ELSE 0

\* handle_event(event): the touches and the counter after the call, what it
\* returned ("touch", "none", or "raise" for the AttributeError) and the id
\* of the returned touch.
handle_event(active_touches, next_touch_id, event) ==
    LET same == [active_touches |-> active_touches, next_touch_id |-> next_touch_id,
                 ret |-> "none", touch |-> 0]
        touch_id == TmLookupId(event)
        known == touch_id \in TmTouchIds /\ active_touches[touch_id].present
    IN
    IF event.type \in TmDownTypes
    THEN IF event.finger
         THEN [active_touches |-> [active_touches EXCEPT ![next_touch_id] =
                                      Touch(next_touch_id, TmPos(event), TRUE, FALSE)],
               next_touch_id |-> next_touch_id + 1,
               ret |-> "touch", touch |-> next_touch_id]
         ELSE [same EXCEPT !.next_touch_id = next_touch_id + 1, !.ret = "raise"]
    ELSE IF event.type \in TmUpTypes
    THEN IF known
         THEN [same EXCEPT !.active_touches[touch_id].is_down = FALSE,
                           !.ret = "touch", !.touch = touch_id]
         ELSE same
    ELSE IF known
         THEN IF event.finger
              THEN [same EXCEPT !.active_touches[touch_id].pos = TmPos(event),
                                !.active_touches[touch_id].is_move = TRUE,
                                !.ret = "touch", !.touch = touch_id]
              ELSE [same EXCEPT !.ret = "raise"]
         ELSE same

\* get_touch(touch_id)
get_touch(active_touches, touch_id) ==
    IF touch_id \in TmTouchIds /\ active_touches[touch_id].present
    THEN active_touches[touch_id] ELSE TmNoTouch

TmIdle ==
    /\ tm_active_touches = [t \in TmTouchIds |-> TmNoTouch]
    /\ tm_next_touch_id = 0
    /\ tm_owner = [t \in TmTouchIds |-> <<FALSE, 0>>]
    /\ tm_pressed = {}
    /\ tm_last = [op |-> "init", source |-> <<FALSE, 0>>, ret |-> "none", touch |-> 0]

\* TouchManager.__init__
TmInit == TmIdle

\* One event of the queue: a finger (or the mouse button) goes down only when
\* it is up, and moves or goes up only when it is down; the mouse moves at
\* any time.
TmHandleEvent ==
    \E event \in TmEvents :
        /\ event.type \in TmDownTypes =>
              TmSource(event) \notin tm_pressed /\ tm_next_touch_id < TmMaxTouches
        /\ event.type \in TmUpTypes \cup {"FINGERMOTION"} => TmSource(event) \in tm_pressed
        /\ \E r \in {handle_event(tm_active_touches, tm_next_touch_id, event)} :
              /\ tm_active_touches' = r.active_touches
              /\ tm_next_touch_id' = r.next_touch_id
              /\ tm_owner' = IF event.type \in TmDownTypes /\ r.ret = "touch"
                             THEN [tm_owner EXCEPT ![r.touch] = TmSource(event)]
                             ELSE tm_owner
              /\ tm_last' = [op |-> IF event.type \in TmDownTypes THEN "down"
                                    ELSE IF event.type \in TmUpTypes THEN "up" ELSE "motion",
                             source |-> TmSource(event), ret |-> r.ret, touch |-> r.touch]
        /\ tm_pressed' = IF event.type \in TmDownTypes THEN tm_pressed \cup {TmSource(event)}
                         ELSE IF event.type \in TmUpTypes THEN tm_pressed \ {TmSource(event)}
                         ELSE tm_pressed

\* clear_touches()
TmClearTouches ==
    /\ tm_active_touches' = [t \in TmTouchIds |-> TmNoTouch]
    /\ tm_next_touch_id' = 0
    /\ tm_owner' = [t \in TmTouchIds |-> <<FALSE, 0>>]
    /\ tm_pressed' = tm_pressed
    /\ tm_last' = [op |-> "clear_touches", source |-> <<FALSE, 0>>, ret |-> "none", touch |-> 0]

\* ------------------------------------------------------------------------
\* ResourceManager: the caches and the per-level registrations
\*
\* A cached object is represented by its key. The counters resource_stats and
\* memory_usage, which no method of the class branches on, are left out.
\* ------------------------------------------------------------------------
RmLevels == {"COLORS_LEVEL", "SHAPES_LEVEL"}
RmLevelArgs == RmLevels \cup {"NONE"}       \* "NONE" for level=None
RmDisplayModes == {"DEFAULT", "QBOARD"}
RmFontTypes == {"small"}
RmImagePaths == {"assets/star.png"}
RmSoundPaths == {"assets/pop.wav"}
RmImageOutcomes == {"loaded", "missing", "error"}
RmSoundOutcomes == {"loaded", "missing"}

\* get_font: cache_key = f"{self.display_mode}_{font_type}"
FontCacheKey(display_mode, font_type) ==
    IF display_mode = "DEFAULT" THEN "DEFAULT_small" ELSE "QBOARD_small"

\* The entry set_current_level and _register_resource_to_level create.
RmEmptyEntry == [present |-> TRUE, fonts |-> {}, images |-> {}, sounds |-> {}]

RmNoEntry == [present |-> FALSE, fonts |-> {}, images |-> {}, sounds |-> {}]

\* _register_resource_to_level(level_name, resource_type, resource_key)
RegisterResourceToLevel(regs, level_name, resource_type, resource_key) ==
    LET entry == IF regs[level_name].present THEN regs[level_name] ELSE RmEmptyEntry
        added == IF resource_type = "fonts" THEN [entry EXCEPT !.fonts = @ \cup {resource_key}]
                 ELSE IF resource_type = "images" THEN [entry EXCEPT !.images = @ \cup {resource_key}]
                 ELSE [entry EXCEPT !.sounds = @ \cup {resource_key}]
    IN [regs EXCEPT ![level_name] = added]

\* `if level: self._register_resource_to_level(...)`
RmRegisterIf(regs, for_level, resource_type, resource_key) ==
    IF for_level = "NONE" THEN regs ELSE RegisterResourceToLevel(regs, for_level, resource_type, resource_key)

\* unload_level_resources: resources_to_keep, the keys of the current level
\* when it is another level than level_name.
ResourcesToKeep(regs, current_level, level_name) ==
    UNION {regs[other].fonts \cup regs[other].images \cup regs[other].sounds :
              other \in {l \in RmLevels : regs[l].present /\ l # level_name /\ l = current_level}}

RmIdle ==
    /\ rm_fonts = {}
    /\ rm_images = {}
    /\ rm_sounds = {}
    /\ rm_level_resources = [l \in RmLevels |-> RmNoEntry]
    /\ rm_current_level = "NONE"
    /\ rm_display_mode = "DEFAULT"
    /\ rm_last = [op |-> "idle", level |-> "NONE"]

\* ResourceManager.__init__
RmInit ==
    /\ rm_fonts = {}
    /\ rm_images = {}
    /\ rm_sounds = {}
    /\ rm_level_resources = [l \in RmLevels |-> RmNoEntry]
    /\ rm_current_level = "NONE"
    /\ rm_display_mode = "DEFAULT"
    /\ rm_last = [op |-> "init", level |-> "NONE"]

\* set_display_mode(mode) with a valid mode
RmSetDisplayMode ==
    /\ \E mode \in RmDisplayModes : rm_display_mode' = mode
    /\ rm_fonts' = {}
    /\ rm_last' = [op |-> "set_display_mode", level |-> "NONE"]
    /\ UNCHANGED <<rm_images, rm_sounds, rm_level_resources, rm_current_level>>

\* get_font(font_type, force_reload, level)
RmGetFont ==
    /\ \E font_type \in RmFontTypes, force_reload \in BOOLEAN, for_level \in RmLevelArgs :
        LET cache_key == FontCacheKey(rm_display_mode, font_type) IN
        /\ rm_fonts' = IF cache_key \in rm_fonts /\ ~force_reload
                       THEN rm_fonts
                       ELSE rm_fonts \cup {cache_key}
        /\ rm_level_resources' = RmRegisterIf(rm_level_resources, for_level, "fonts", cache_key)
        /\ rm_last' = [op |-> "get_font", level |-> "NONE"]
    /\ UNCHANGED <<rm_images, rm_sounds, rm_current_level, rm_display_mode>>

\* get_image(image_path, None, level); `outcome` says whether the file exists
\* and whether pygame could load it.
RmGetImage ==
    /\ \E image_path \in RmImagePaths, for_level \in RmLevelArgs, outcome \in RmImageOutcomes :
        /\ IF image_path \in rm_images
           THEN /\ UNCHANGED rm_images
                /\ rm_level_resources' = RmRegisterIf(rm_level_resources, for_level, "images", image_path)
           ELSE /\ rm_images' = rm_images \cup {image_path}
                /\ rm_level_resources' = IF outcome = "loaded"
                                         THEN RmRegisterIf(rm_level_resources, for_level, "images", image_path)
                                         ELSE rm_level_resources
        /\ rm_last' = [op |-> "get_image", level |-> "NONE"]
    /\ UNCHANGED <<rm_fonts, rm_sounds, rm_current_level, rm_display_mode>>

\* get_sound(sound_path, level)
RmGetSound ==
    /\ \E sound_path \in RmSoundPaths, for_level \in RmLevelArgs, outcome \in RmSoundOutcomes :
        /\ IF sound_path \in rm_sounds
           THEN /\ UNCHANGED rm_sounds
                /\ rm_level_resources' = RmRegisterIf(rm_level_resources, for_level, "sounds", sound_path)
           ELSE IF outcome = "loaded"
           THEN /\ rm_sounds' = rm_sounds \cup {sound_path}
                /\ rm_level_resources' = RmRegisterIf(rm_level_resources, for_level, "sounds", sound_path)
           ELSE UNCHANGED <<rm_sounds, rm_level_resources>>
        /\ rm_last' = [op |-> "get_sound", level |-> "NONE"]
    /\ UNCHANGED <<rm_fonts, rm_images, rm_current_level, rm_display_mode>>

\* set_current_level(level_name)
RmSetCurrentLevel ==
    /\ \E level_name \in RmLevelArgs :
        /\ rm_current_level' = level_name
        /\ rm_level_resources' =
              IF level_name # rm_current_level /\ level_name # "NONE"
                 /\ ~rm_level_resources[level_name].present
              THEN [rm_level_resources EXCEPT ![level_name] = RmEmptyEntry]
              ELSE rm_level_resources
        /\ rm_last' = [op |-> "set_current_level", level |-> "NONE"]
    /\ UNCHANGED <<rm_fonts, rm_images, rm_sounds, rm_display_mode>>

\* unload_level_resources(level_name)
RmUnloadLevelResources ==
    /\ \E level_name \in RmLevels :
        /\ rm_last' = [op |-> "unload_level_resources", level |-> level_name]
        /\ IF ~rm_level_resources[level_name].present
           THEN UNCHANGED <<rm_fonts, rm_images, rm_sounds, rm_level_resources>>
           ELSE LET keep == ResourcesToKeep(rm_level_resources, rm_current_level, level_name)
                    gone_fonts == (rm_level_resources[level_name].fonts \ keep) \cap rm_fonts
                    gone_images == (rm_level_resources[level_name].images \ keep) \cap rm_images
                    gone_sounds == (rm_level_resources[level_name].sounds \ keep) \cap rm_sounds
                IN /\ rm_fonts' = rm_fonts \ gone_fonts
                   /\ rm_images' = rm_images \ gone_images
                   /\ rm_sounds' = rm_sounds \ gone_sounds
                   /\ rm_level_resources' = [rm_level_resources EXCEPT ![level_name] = RmNoEntry]
    /\ UNCHANGED <<rm_current_level, rm_display_mode>>

\* cleanup()
RmCleanup ==
    /\ rm_fonts' = {}
    /\ rm_images' = {}
    /\ rm_sounds' = {}
    /\ rm_level_resources' = [l \in RmLevels |-> RmNoEntry]
    /\ rm_last' = [op |-> "cleanup", level |-> "NONE"]
    /\ UNCHANGED <<rm_current_level, rm_display_mode>>

\* ------------------------------------------------------------------------
\* Specifications
\* ------------------------------------------------------------------------
EffectsMiss == FxMiss /\ UNCHANGED <<varsPS, varsPM, varsCL, varsGD, varsCD, varsPP, varsGC, varsSS, varsBN, varsSL, varsRN, varsRM, varsTM>>
EffectsUpdate == FxUpdate /\ UNCHANGED <<varsPS, varsPM, varsCL, varsGD, varsCD, varsPP, varsGC, varsSS, varsBN, varsSL, varsRN, varsRM, varsTM>>
EffectsGetShakeOffset == FxGetShakeOffset /\ UNCHANGED <<varsPS, varsPM, varsCL, varsGD, varsCD, varsPP, varsGC, varsSS, varsBN, varsSL, varsRN, varsRM, varsTM>>

NextEffects ==
    \/ EffectsMiss
    \/ EffectsUpdate
    \/ EffectsGetShakeOffset

InitEffects == FxInit /\ PsIdle /\ PmIdle /\ ClIdle /\ GdIdle /\ CdIdle /\ PpIdle /\ GcIdle /\ SsIdle /\ BnIdle /\ SlIdle /\ RnIdle /\ RmIdle /\ TmIdle

SpecEffects == InitEffects /\ [][NextEffects]_vars

\* The Effects object called through its public methods by any caller.
EffectsApiCreateCrack == ApiCreateCrack /\ UNCHANGED <<varsPS, varsPM, varsCL, varsGD, varsCD, varsPP, varsGC, varsSS, varsBN, varsSL, varsRN, varsRM, varsTM>>
EffectsApiShatterScreen ==
    /\ \E d \in 0..MaxShatterArg : ApiShatterScreen(d)
    /\ UNCHANGED <<varsPS, varsPM, varsCL, varsGD, varsCD, varsPP, varsGC, varsSS, varsBN, varsSL, varsRN, varsRM, varsTM>>
EffectsApiStartShake ==
    /\ \E d \in 0..MaxShakeArg : \E m \in 0..MaxMagnitudeArg : ApiStartShake(d, m)
    /\ UNCHANGED <<varsPS, varsPM, varsCL, varsGD, varsCD, varsPP, varsGC, varsSS, varsBN, varsSL, varsRN, varsRM, varsTM>>
EffectsApiGetShakeOffset == ApiGetShakeOffset /\ UNCHANGED <<varsPS, varsPM, varsCL, varsGD, varsCD, varsPP, varsGC, varsSS, varsBN, varsSL, varsRN, varsRM, varsTM>>
EffectsApiUpdate == FxUpdate /\ UNCHANGED <<varsPS, varsPM, varsCL, varsGD, varsCD, varsPP, varsGC, varsSS, varsBN, varsSL, varsRN, varsRM, varsTM>>

\* The shatter cycle under any sequence of create_crack, shatter_screen(d)
\* and update calls.
NextShatter ==
    \/ EffectsApiCreateCrack
    \/ EffectsApiShatterScreen
    \/ EffectsApiUpdate

InitShatter == FxInit /\ PsIdle /\ PmIdle /\ ClIdle /\ GdIdle /\ CdIdle /\ PpIdle /\ GcIdle /\ SsIdle /\ BnIdle /\ SlIdle /\ RnIdle /\ RmIdle /\ TmIdle

SpecShatter == InitShatter /\ [][NextShatter]_vars

\* The screen shake under any sequence of start_shake(d, m) and
\* get_shake_offset calls.
NextShake ==
    \/ EffectsApiStartShake
    \/ EffectsApiGetShakeOffset

InitShake == FxInit /\ PsIdle /\ PmIdle /\ ClIdle /\ GdIdle /\ CdIdle /\ PpIdle /\ GcIdle /\ SsIdle /\ BnIdle /\ SlIdle /\ RnIdle /\ RmIdle /\ TmIdle

SpecShake == InitShake /\ [][NextShake]_vars

ParticleSystemCreate == PsCreateParticle /\ UNCHANGED <<varsFx, varsPM, varsCL, varsGD, varsCD, varsPP, varsGC, varsSS, varsBN, varsSL, varsRN, varsRM, varsTM>>
ParticleSystemUpdate == PsUpdate /\ UNCHANGED <<varsFx, varsPM, varsCL, varsGD, varsCD, varsPP, varsGC, varsSS, varsBN, varsSL, varsRN, varsRM, varsTM>>
ParticleSystemClear == PsClear /\ UNCHANGED <<varsFx, varsPM, varsCL, varsGD, varsCD, varsPP, varsGC, varsSS, varsBN, varsSL, varsRN, varsRM, varsTM>>

NextParticleSystem ==
    \/ ParticleSystemCreate
    \/ ParticleSystemUpdate
    \/ ParticleSystemClear

InitParticleSystem == PsInit /\ FxIdle /\ PmIdle /\ ClIdle /\ GdIdle /\ CdIdle /\ PpIdle /\ GcIdle /\ SsIdle /\ BnIdle /\ SlIdle /\ RnIdle /\ RmIdle /\ TmIdle

SpecParticleSystem == InitParticleSystem /\ [][NextParticleSystem]_vars

ParticleManagerCreate == PmCreateParticle /\ UNCHANGED <<varsFx, varsPS, varsCL, varsGD, varsCD, varsPP, varsGC, varsSS, varsBN, varsSL, varsRN, varsRM, varsTM>>
ParticleManagerUpdate == PmUpdate /\ UNCHANGED <<varsFx, varsPS, varsCL, varsGD, varsCD, varsPP, varsGC, varsSS, varsBN, varsSL, varsRN, varsRM, varsTM>>
ParticleManagerClear == PmClear /\ UNCHANGED <<varsFx, varsPS, varsCL, varsGD, varsCD, varsPP, varsGC, varsSS, varsBN, varsSL, varsRN, varsRM, varsTM>>

NextParticleManager ==
    \/ ParticleManagerCreate
    \/ ParticleManagerUpdate
    \/ ParticleManagerClear

InitParticleManager == PmInit /\ FxIdle /\ PsIdle /\ ClIdle /\ GdIdle /\ CdIdle /\ PpIdle /\ GcIdle /\ SsIdle /\ BnIdle /\ SlIdle /\ RnIdle /\ RmIdle /\ TmIdle

SpecParticleManager == InitParticleManager /\ [][NextParticleManager]_vars

\* The Colors level: the runner's loop over one Effects object.
ColorsTick == ClTick /\ UNCHANGED <<varsPS, varsPM, varsGD, varsCD, varsPP, varsGC, varsSS, varsBN, varsSL, varsRN, varsRM, varsTM>>
ColorsClick ==
    /\ \E kind \in {"mouse", "finger"} : \E near \in NearSets(level) : ClClick(kind, near)
    /\ UNCHANGED <<varsPS, varsPM, varsGD, varsCD, varsPP, varsGC, varsSS, varsBN, varsSL, varsRN, varsRM, varsTM>>
ColorsExit == (\E status \in {"QUIT", "LEVEL_MENU"} : ClExit(status)) /\ UNCHANGED <<varsPS, varsPM, varsGD, varsCD, varsPP, varsGC, varsSS, varsBN, varsSL, varsRN, varsRM, varsTM>>
ColorsRestart == ClRestart /\ UNCHANGED <<varsPS, varsPM, varsGD, varsCD, varsPP, varsGC, varsSS, varsBN, varsSL, varsRN, varsRM, varsTM>>
ColorsResume == ClResume /\ UNCHANGED <<varsPS, varsPM, varsGD, varsCD, varsPP, varsGC, varsSS, varsBN, varsSL, varsRN, varsRM, varsTM>>

NextColors ==
    \/ ColorsTick
    \/ ColorsClick
    \/ ColorsExit
    \/ ColorsRestart
    \/ ColorsResume

InitColors == ClInit /\ FxInit /\ PsIdle /\ PmIdle /\ GdIdle /\ CdIdle /\ PpIdle /\ GcIdle /\ SsIdle /\ BnIdle /\ SlIdle /\ RnIdle /\ RmIdle /\ TmIdle

SpecColors == InitColors /\ [][NextColors]_vars

\* The collision phase of one tick on any placement of the dots.
GridCollisionPhase == GdCollisionPhase /\ UNCHANGED <<varsFx, varsPS, varsPM, varsCL, varsCD, varsPP, varsGC, varsSS, varsBN, varsSL, varsRN, varsRM, varsTM>>

NextGrid == GridCollisionPhase

InitGrid == GdInit /\ FxIdle /\ PsIdle /\ PmIdle /\ ClIdle /\ CdIdle /\ PpIdle /\ GcIdle /\ SsIdle /\ BnIdle /\ SlIdle /\ RnIdle /\ RmIdle /\ TmIdle

SpecGrid == InitGrid /\ [][NextGrid]_vars

\* _check_collision called on one pair of dots, again and again.
CollisionCheck == CdCheckCollision /\ UNCHANGED <<varsFx, varsPS, varsCL, varsGD, varsPP, varsGC, varsSS, varsBN, varsSL, varsRN, varsRM, varsTM>>

NextCollision == CollisionCheck

InitCollision == CdInit /\ PmInit /\ FxIdle /\ PsIdle /\ ClIdle /\ GdIdle /\ PpIdle /\ GcIdle /\ SsIdle /\ BnIdle /\ SlIdle /\ RnIdle /\ RmIdle /\ TmIdle

SpecCollision == InitCollision /\ [][NextCollision]_vars

\* ParticleManager and ParticlePool, the two pools whose create_particle
\* gives up when the pool is saturated. A run exercises one of the two
\* objects, under any sequence of its calls.
PoolsManagerCreate == pp_last.op = "init" /\ PmCreateParticle /\ UNCHANGED <<varsFx, varsPS, varsCL, varsGD, varsCD, varsPP, varsGC, varsSS, varsBN, varsSL, varsRN, varsRM, varsTM>>
PoolsManagerUpdate == pp_last.op = "init" /\ PmUpdate /\ UNCHANGED <<varsFx, varsPS, varsCL, varsGD, varsCD, varsPP, varsGC, varsSS, varsBN, varsSL, varsRN, varsRM, varsTM>>
PoolsManagerClear == pp_last.op = "init" /\ PmClear /\ UNCHANGED <<varsFx, varsPS, varsCL, varsGD, varsCD, varsPP, varsGC, varsSS, varsBN, varsSL, varsRN, varsRM, varsTM>>
PoolsPoolCreate == pm_last.op = "init" /\ PpCreateParticle /\ UNCHANGED <<varsFx, varsPS, varsPM, varsCL, varsGD, varsCD, varsGC, varsSS, varsBN, varsSL, varsRN, varsRM, varsTM>>
PoolsPoolUpdate == pm_last.op = "init" /\ PpUpdate /\ UNCHANGED <<varsFx, varsPS, varsPM, varsCL, varsGD, varsCD, varsGC, varsSS, varsBN, varsSL, varsRN, varsRM, varsTM>>

NextPools ==
    \/ PoolsManagerCreate
    \/ PoolsManagerUpdate
    \/ PoolsManagerClear
    \/ PoolsPoolCreate
    \/ PoolsPoolUpdate

InitPools == PmInit /\ PpInit /\ FxIdle /\ PsIdle /\ ClIdle /\ GdIdle /\ CdIdle /\ GcIdle /\ SsIdle /\ BnIdle /\ SlIdle /\ RnIdle /\ RmIdle /\ TmIdle

SpecPools == InitPools /\ [][NextPools]_vars

\* The two objects that keep a grid, constructed and ticked under any
\* configured cell size.
GridSizeLevelConstruct == GcLevelConstruct /\ UNCHANGED <<varsFx, varsPS, varsPM, varsCL, varsGD, varsCD, varsPP, varsSS, varsBN, varsSL, varsRN, varsRM, varsTM>>
GridSizeLevelInitialize == GcLevelInitialize /\ UNCHANGED <<varsFx, varsPS, varsPM, varsCL, varsGD, varsCD, varsPP, varsSS, varsBN, varsSL, varsRN, varsRM, varsTM>>
GridSizeLevelUpdateDots == GcLevelUpdateDots /\ UNCHANGED <<varsFx, varsPS, varsPM, varsCL, varsGD, varsCD, varsPP, varsSS, varsBN, varsSL, varsRN, varsRM, varsTM>>
GridSizeSystemConstruct == GcSystemConstruct /\ UNCHANGED <<varsFx, varsPS, varsPM, varsCL, varsGD, varsCD, varsPP, varsSS, varsBN, varsSL, varsRN, varsRM, varsTM>>
GridSizeSystemUpdate == GcSystemUpdate /\ UNCHANGED <<varsFx, varsPS, varsPM, varsCL, varsGD, varsCD, varsPP, varsSS, varsBN, varsSL, varsRN, varsRM, varsTM>>

NextGridSize ==
    \/ GridSizeLevelConstruct
    \/ GridSizeLevelInitialize
    \/ GridSizeLevelUpdateDots
    \/ GridSizeSystemConstruct
    \/ GridSizeSystemUpdate

InitGridSize == GcInit /\ FxIdle /\ PsIdle /\ PmIdle /\ ClIdle /\ GdIdle /\ CdIdle /\ PpIdle /\ SsIdle /\ BnIdle /\ SlIdle /\ RnIdle /\ RmIdle /\ TmIdle

SpecGridSize == InitGridSize /\ [][NextGridSize]_vars

\* The level played without misses, with resume_from_checkpoint() called at
\* any moment of the loop and after a checkpoint.
ResumeTick == ClTick /\ UNCHANGED <<varsPS, varsPM, varsGD, varsCD, varsPP, varsGC, varsSS, varsBN, varsSL, varsRN, varsRM, varsTM>>
ResumeClick ==
    /\ \E kind \in {"mouse", "finger"} : \E near \in NearSets(level) :
          /\ level.dots_state = "GAMEPLAY" => near # {}
          /\ ClClick(kind, near)
    /\ UNCHANGED <<varsPS, varsPM, varsGD, varsCD, varsPP, varsGC, varsSS, varsBN, varsSL, varsRN, varsRM, varsTM>>
ResumeRunning == ClResumeRunning /\ UNCHANGED <<varsPS, varsPM, varsGD, varsCD, varsPP, varsGC, varsSS, varsBN, varsSL, varsRN, varsRM, varsTM>>
ResumeAfterCheckpoint == ClResume /\ UNCHANGED <<varsPS, varsPM, varsGD, varsCD, varsPP, varsGC, varsSS, varsBN, varsSL, varsRN, varsRM, varsTM>>

NextResume ==
    \/ ResumeTick
    \/ ResumeClick
    \/ ResumeRunning
    \/ ResumeAfterCheckpoint

InitResume == ClInit /\ FxInit /\ PsIdle /\ PmIdle /\ GdIdle /\ CdIdle /\ PpIdle /\ GcIdle /\ SsIdle /\ BnIdle /\ SlIdle /\ RnIdle /\ RmIdle /\ TmIdle

SpecResume == InitResume /\ [][NextResume]_vars

\* SuperStudent.py: misses, frames drawn and the game-over screen, in any order.
ShatterStateCreateCrack == SsCreateCrack /\ UNCHANGED <<varsFx, varsPS, varsPM, varsCL, varsGD, varsCD, varsPP, varsGC, varsBN, varsSL, varsRN, varsRM, varsTM>>
ShatterStateDrawCracks == SsDrawCracks /\ UNCHANGED <<varsFx, varsPS, varsPM, varsCL, varsGD, varsCD, varsPP, varsGC, varsBN, varsSL, varsRN, varsRM, varsTM>>
ShatterStateGameOverClick == SsGameOverClick /\ UNCHANGED <<varsFx, varsPS, varsPM, varsCL, varsGD, varsCD, varsPP, varsGC, varsBN, varsSL, varsRN, varsRM, varsTM>>
ShatterStateGameLoop == SsGameLoop /\ UNCHANGED <<varsFx, varsPS, varsPM, varsCL, varsGD, varsCD, varsPP, varsGC, varsBN, varsSL, varsRN, varsRM, varsTM>>

NextShatterState ==
    \/ ShatterStateCreateCrack
    \/ ShatterStateDrawCracks
    \/ ShatterStateGameOverClick
    \/ ShatterStateGameLoop

InitShatterState == SsInit /\ FxIdle /\ PsIdle /\ PmIdle /\ ClIdle /\ GdIdle /\ CdIdle /\ PpIdle /\ GcIdle /\ BnIdle /\ SlIdle /\ RnIdle /\ RmIdle /\ TmIdle

SpecShatterState == InitShatterState /\ [][NextShatterState]_vars

\* Two dots near the walls through a few ticks of _update_dots.
BounceUpdateDots == BnUpdateDots /\ UNCHANGED <<varsFx, varsPS, varsPM, varsCL, varsGD, varsCD, varsPP, varsGC, varsSS, varsSL, varsRN, varsRM, varsTM>>

NextBounce == BounceUpdateDots

InitBounce == BnInit /\ FxIdle /\ PsIdle /\ PmIdle /\ ClIdle /\ GdIdle /\ CdIdle /\ PpIdle /\ GcIdle /\ SsIdle /\ SlIdle /\ RnIdle /\ RmIdle /\ TmIdle

SpecBounce == InitBounce /\ [][NextBounce]_vars

\* The target classes a level selects, one _switch_target_color after another.
SelectionSwitchTargetColor == SlSwitchTargetColor /\ UNCHANGED <<varsFx, varsPS, varsPM, varsGD, varsCD, varsPP, varsGC, varsSS, varsBN, varsRN, varsRM, varsTM>>

NextSelection == SelectionSwitchTargetColor

InitSelection == SlInit /\ FxIdle /\ PsIdle /\ PmIdle /\ GdIdle /\ CdIdle /\ PpIdle /\ GcIdle /\ SsIdle /\ BnIdle /\ RnIdle /\ RmIdle /\ TmIdle

SpecSelection == InitSelection /\ [][NextSelection]_vars

\* One call of start_colors_level_instance.
RunnerTick == RnTick /\ UNCHANGED <<varsFx, varsPS, varsPM, varsCL, varsGD, varsCD, varsPP, varsGC, varsSS, varsBN, varsSL, varsRM, varsTM>>

RunnerHandleEvent == RnHandleEvent /\ UNCHANGED <<varsFx, varsPS, varsPM, varsCL, varsGD, varsCD, varsPP, varsGC, varsSS, varsBN, varsSL, varsRM, varsTM>>

RunnerUpdate == RnUpdate /\ UNCHANGED <<varsFx, varsPS, varsPM, varsCL, varsGD, varsCD, varsPP, varsGC, varsSS, varsBN, varsSL, varsRM, varsTM>>

RunnerDraw == RnDraw /\ UNCHANGED <<varsFx, varsPS, varsPM, varsCL, varsGD, varsCD, varsPP, varsGC, varsSS, varsBN, varsSL, varsRM, varsTM>>

RunnerCleanup == RnCleanup /\ UNCHANGED <<varsFx, varsPS, varsPM, varsCL, varsGD, varsCD, varsPP, varsGC, varsSS, varsBN, varsSL, varsRM, varsTM>>

NextRunner ==
    \/ RunnerTick
    \/ RunnerHandleEvent
    \/ RunnerUpdate
    \/ RunnerDraw
    \/ RunnerCleanup

InitRunner == RnInit /\ FxIdle /\ PsIdle /\ PmIdle /\ ClIdle /\ GdIdle /\ CdIdle /\ PpIdle /\ GcIdle /\ SsIdle /\ BnIdle /\ SlIdle /\ RmIdle /\ TmIdle

SpecRunner == InitRunner /\ [][NextRunner]_vars

\* Any sequence of calls on one ResourceManager.
ResourcesSetDisplayMode == RmSetDisplayMode /\ UNCHANGED <<varsFx, varsPS, varsPM, varsCL, varsGD, varsCD, varsPP, varsGC, varsSS, varsBN, varsSL, varsRN, varsTM>>

ResourcesGetFont == RmGetFont /\ UNCHANGED <<varsFx, varsPS, varsPM, varsCL, varsGD, varsCD, varsPP, varsGC, varsSS, varsBN, varsSL, varsRN, varsTM>>

ResourcesGetImage == RmGetImage /\ UNCHANGED <<varsFx, varsPS, varsPM, varsCL, varsGD, varsCD, varsPP, varsGC, varsSS, varsBN, varsSL, varsRN, varsTM>>

ResourcesGetSound == RmGetSound /\ UNCHANGED <<varsFx, varsPS, varsPM, varsCL, varsGD, varsCD, varsPP, varsGC, varsSS, varsBN, varsSL, varsRN, varsTM>>

ResourcesSetCurrentLevel == RmSetCurrentLevel /\ UNCHANGED <<varsFx, varsPS, varsPM, varsCL, varsGD, varsCD, varsPP, varsGC, varsSS, varsBN, varsSL, varsRN, varsTM>>

ResourcesUnloadLevelResources == RmUnloadLevelResources /\ UNCHANGED <<varsFx, varsPS, varsPM, varsCL, varsGD, varsCD, varsPP, varsGC, varsSS, varsBN, varsSL, varsRN, varsTM>>

ResourcesCleanup == RmCleanup /\ UNCHANGED <<varsFx, varsPS, varsPM, varsCL, varsGD, varsCD, varsPP, varsGC, varsSS, varsBN, varsSL, varsRN, varsTM>>

NextResources ==
    \/ ResourcesSetDisplayMode
    \/ ResourcesGetFont
    \/ ResourcesGetImage
    \/ ResourcesGetSound
    \/ ResourcesSetCurrentLevel
    \/ ResourcesUnloadLevelResources
    \/ ResourcesCleanup

InitResources == RmInit /\ FxIdle /\ PsIdle /\ PmIdle /\ ClIdle /\ GdIdle /\ CdIdle /\ PpIdle /\ GcIdle /\ SsIdle /\ BnIdle /\ SlIdle /\ RnIdle /\ TmIdle

SpecResources == InitResources /\ [][NextResources]_vars

\* Any interleaving of the events of two fingers and the mouse on one TouchManager.
TouchHandleEvent == TmHandleEvent /\ UNCHANGED <<varsFx, varsPS, varsPM, varsCL, varsGD, varsCD, varsPP, varsGC, varsSS, varsBN, varsSL, varsRN, varsRM>>

TouchClearTouches == TmClearTouches /\ UNCHANGED <<varsFx, varsPS, varsPM, varsCL, varsGD, varsCD, varsPP, varsGC, varsSS, varsBN, varsSL, varsRN, varsRM>>

NextTouch ==
    \/ TouchHandleEvent
    \/ TouchClearTouches

InitTouch == TmInit /\ FxIdle /\ PsIdle /\ PmIdle /\ ClIdle /\ GdIdle /\ CdIdle /\ PpIdle /\ GcIdle /\ SsIdle /\ BnIdle /\ SlIdle /\ RnIdle /\ RmIdle

SpecTouch == InitTouch /\ [][NextTouch]_vars

\* ------------------------------------------------------------------------
\* Claims about Effects (checked under SpecEffects)
\* ------------------------------------------------------------------------

\* C1: a qualifying miss triggers the shatter (create_crack returns True,
\* shatter_screen is called and latches the countdown, handle_event returns
\* GAME_OVER) exactly when it brings the crack count to MAX_CRACKS; a miss made
\* while the shatter is latched and its countdown is running calls no
\* shatter_screen, leaves the countdown as it is and adds no crack mark.
C1_ShatterExactlyAtThreshold ==
    [][ fx_last'.op = "miss" =>
          /\ fx_last'.ret = (/\ Len(glass_cracks) < MAX_CRACKS
                             /\ Len(glass_cracks') = MAX_CRACKS)
          /\ fx_last'.shatter = fx_last'.ret
          /\ (fx_last'.status = "GAME_OVER") = fx_last'.ret
          /\ (fx_last'.ret => background_shattered' /\ shatter_timer' = SHATTER_DURATION)
          /\ (~fx_last'.ret => UNCHANGED <<background_shattered, shatter_timer>>)
          /\ (background_shattered /\ shatter_timer > 0 =>
                 /\ ~fx_last'.ret
                 /\ shatter_timer' = shatter_timer
                 /\ glass_cracks' = glass_cracks)
      ]_vars

\* C1 witness: a further miss was handled while the shatter is latched and the
\* countdown is part-way through.
C1_Witness ==
    /\ fx_last.op = "miss"
    /\ ~fx_last.ret
    /\ background_shattered
    /\ shatter_timer > 0
    /\ shatter_timer < SHATTER_DURATION
    /\ Len(glass_cracks) = MAX_CRACKS

\* C10: the number of crack marks never exceeds MAX_CRACKS; it changes only by
\* +1 on a create_crack call made below the threshold, or back to zero at the
\* update step in which the shatter countdown reaches 0.
C10_CrackCountBounded ==
    /\ Len(glass_cracks) <= MAX_CRACKS
    /\ [][ /\ Len(glass_cracks') <= MAX_CRACKS
           /\ (Len(glass_cracks') # Len(glass_cracks) =>
                 \/ /\ fx_last'.op = "miss"
                    /\ Len(glass_cracks) < MAX_CRACKS
                    /\ Len(glass_cracks') = Len(glass_cracks) + 1
                 \/ /\ fx_last'.op = "update"
                    /\ Len(glass_cracks') = 0
                    /\ background_shattered
                    /\ shatter_timer = 1
                    /\ shatter_timer' = 0
                    /\ ~background_shattered')
      ]_vars

\* C10 witness: an update step completed a shatter cycle and cleared the marks.
C10_Witness ==
    /\ fx_last.op = "update"
    /\ glass_cracks = <<>>
    /\ ~background_shattered
    /\ shatter_timer = 0
    /\ shake_magnitude = SHATTER_SHAKE_MAGNITUDE

\* C11: shatter_timer > 0 only while background_shattered; the miss that
\* records the MAX_CRACKS-th crack mark leaves the latch set, exactly
\* MAX_CRACKS marks and a positive countdown; the update step at which the
\* countdown reaches 0 resets the latch.
C11_ShatterLatch ==
    /\ [](shatter_timer > 0 => background_shattered)
    /\ [][(fx_last'.op = "miss" /\ Len(glass_cracks) = MAX_CRACKS - 1) =>
             /\ background_shattered'
             /\ Len(glass_cracks') = MAX_CRACKS
             /\ shatter_timer' > 0]_vars
    /\ [][(fx_last'.op = "update" /\ shatter_timer > 0 /\ shatter_timer' = 0) =>
             ~background_shattered']_vars

\* C11 witness: the MAX_CRACKS-th miss in sequence has just been handled.
C11_Witness ==
    /\ fx_last.op = "miss"
    /\ fx_last.ret
    /\ background_shattered
    /\ Len(glass_cracks) = MAX_CRACKS
    /\ shatter_timer = SHATTER_DURATION

\* ------------------------------------------------------------------------
\* Claims about the shatter cycle (checked under SpecShatter)
\* ------------------------------------------------------------------------
\* C12: after shatter_screen(d) with d >= 1, the d-th update call and no
\* earlier one releases the latch and clears all crack marks; create_crack
\* then adds one mark per call from zero and returns True again at the
\* threshold.
C12_ShatterLastsExactly ==
    /\ []((fx_api.shatter_d >= 1 /\ fx_api.updates < fx_api.shatter_d)
             => background_shattered)
    /\ [][(fx_last'.op = "update" /\ fx_api.shatter_d >= 1
              /\ fx_api.updates < fx_api.shatter_d) =>
             IF fx_api'.updates = fx_api.shatter_d
             THEN ~background_shattered' /\ glass_cracks' = <<>>
             ELSE background_shattered' /\ glass_cracks' = glass_cracks]_vars
    /\ [][(fx_last'.op = "create_crack" /\ Len(glass_cracks) < MAX_CRACKS) =>
             /\ Len(glass_cracks') = Len(glass_cracks) + 1
             /\ fx_last'.ret = (Len(glass_cracks') = MAX_CRACKS)]_vars

\* C12 witness: a shatter of two or more updates has run its course and
\* create_crack, accumulating from zero, has reached the threshold again.
C12_Witness ==
    /\ fx_last.op = "create_crack"
    /\ fx_last.ret
    /\ fx_api.shatter_d >= 2
    /\ fx_api.updates = fx_api.shatter_d
    /\ ~background_shattered
    /\ Len(glass_cracks) = MAX_CRACKS

\* ------------------------------------------------------------------------
\* Claims about the screen shake (checked under SpecShake)
\* ------------------------------------------------------------------------
\* C14: start_shake never shortens a shake in flight: after the call
\* shake_duration is at least what it was before the call.
C14_ShakeNeverShortened ==
    fx_last.op = "start_shake" => shake_duration >= fx_api.shake_before

\* C15: after start_shake(d, m), d >= 0, each of the next d get_shake_offset
\* calls returns a pair with both components in [-m, +m] and decrements
\* shake_duration by one; every later call returns (0, 0) and leaves
\* shake_duration at 0; shake_duration is never negative.
C15_ShakeWindow ==
    /\ [](shake_duration >= 0)
    /\ [][(fx_last'.op = "get_shake_offset" /\ fx_api.shake_d >= 0) =>
             IF fx_api.offsets < fx_api.shake_d
             THEN /\ shake_duration' = shake_duration - 1
                  /\ fx_offset'[1] \in -fx_api.shake_m..fx_api.shake_m
                  /\ fx_offset'[2] \in -fx_api.shake_m..fx_api.shake_m
             ELSE /\ fx_offset' = <<0, 0>>
                  /\ shake_duration = 0
                  /\ shake_duration' = 0]_vars

\* C15 witness: the shake of a start_shake(d, m) with d >= 2 and m >= 1 has
\* been used up by d calls and the next call has returned (0, 0).
C15_Witness ==
    /\ fx_last.op = "get_shake_offset"
    /\ fx_api.shake_d >= 2
    /\ fx_api.shake_m >= 1
    /\ fx_api.offsets = fx_api.shake_d
    /\ shake_duration = 0
    /\ fx_offset = <<0, 0>>

\* ------------------------------------------------------------------------
\* Claims about ParticleSystem (checked under SpecParticleSystem)
\* ------------------------------------------------------------------------
PsActiveFlags == {i \in 1..Len(ps_pool) : ps_pool[i].active}

\* C4: the number of active particles (active flag true; length of
\* active_particles) never exceeds max_particles, and particle_pool never
\* grows beyond max_particles slots.
C4_ActiveWithinCapacity ==
    /\ Cardinality(PsActiveFlags) <= PsMaxParticles
    /\ Len(ps_active) <= PsMaxParticles
    /\ Len(ps_pool) <= PsMaxParticles

\* C6: ceil(L / dt) update calls after create_particle made a particle of
\* lifetime L, with no other call in between, the particle has been released:
\* its active flag is false and it is not in active_particles.
C6_ReleasedAfterCeil ==
    (/\ ps_track.slot # 0
     /\ ps_track.updates >= CeilDiv(ps_track.life * 60, ps_dt))
    => /\ ~ps_pool[ps_track.slot].active
       /\ \A k \in 1..Len(ps_active) : ps_active[k] # ps_track.slot

\* ------------------------------------------------------------------------
\* Claims about ParticleManager (checked under SpecParticleManager)
\* ------------------------------------------------------------------------
PmActiveCount ==
    Cardinality({i \in 1..Len(pm_pool) : pm_pool[i].active})
    + Cardinality({i \in 1..Len(pm_particles) : pm_particles[i].active})

\* C5: the number of particles whose active flag is true, counted over the
\* pre-created particle_pool slots and the particles list, never exceeds
\* max_particles.
C5_ManagerActiveWithinCapacity == PmActiveCount <= PmMaxParticles

\* ------------------------------------------------------------------------
\* Claim about saturated pools (checked under SpecPools)
\* ------------------------------------------------------------------------
\* ParticleManager: no inactive particle_pool slot and len(particles) >=
\* max_particles.
PmSaturated ==
    /\ \A i \in 1..Len(pm_pool) : pm_pool[i].active
    /\ Len(pm_particles) >= PmMaxParticles

\* ParticlePool: len(particles) >= max_particles.
PpSaturated == Len(pp_particles) >= PpMaxParticles

\* C21: create_particle on a saturated pool is a no-op. ParticleManager's
\* returns None and leaves particle_pool and particles as they were;
\* ParticlePool's appends nothing and leaves particles as it was.
C21_SaturatedCreateIsNoOp ==
    /\ [][(PmCreateParticle /\ PmSaturated) =>
             /\ pm_last'.where = "none"
             /\ pm_pool' = pm_pool
             /\ pm_particles' = pm_particles]_vars
    /\ [][(PpCreateParticle /\ PpSaturated) =>
             /\ ~pp_last'.appended
             /\ pp_particles' = pp_particles]_vars

\* The manager is saturated, one of its listed particles has expired, and
\* its last create_particle gave up.
C21_Witness ==
    /\ PmSaturated
    /\ \E i \in 1..Len(pm_particles) : ~pm_particles[i].active
    /\ pm_last = [op |-> "create", where |-> "none"]

\* ------------------------------------------------------------------------
\* Claims about ColorsLevel (checked under SpecColors)
\* ------------------------------------------------------------------------
\* C2: every rotation triggered by the quota-completing hit on the active
\* class X selects a class Y different from X, the first rotation after
\* initialize() included.
C2_RotationPicksDifferentClass ==
    [][cl_last'.ev = "rotate" => level'.color_idx # level.color_idx]_vars

\* C3: in every GAMEPLAY state of a running level, mother_color is the color
\* of the active class, every alive dot has target == (color == mother_color),
\* and target_dots_left is the number of alive dots flagged as targets.
C3_TargetFlagsConsistent ==
    (cl_run = "running" /\ level.dots_state = "GAMEPLAY") =>
        /\ level.mother_color = COLORS_LIST[level.color_idx]
        /\ \A k \in 1..Len(level.dots) :
              level.dots[k].alive =>
                  (level.dots[k].target <=> (level.dots[k].color = level.mother_color))
        /\ level.target_dots_left =
              Cardinality({k \in 1..Len(level.dots) :
                              level.dots[k].alive /\ level.dots[k].target})

\* A rotation has just re-tagged a population in which targets of the new
\* class and alive dots of other classes remain.
C3_Witness ==
    /\ cl_run = "running"
    /\ level.dots_state = "GAMEPLAY"
    /\ cl_last.ev = "rotate"
    /\ level.target_dots_left > 0
    /\ \E k \in 1..Len(level.dots) : level.dots[k].alive /\ ~level.dots[k].target
    /\ \E k \in 1..Len(level.dots) : ~level.dots[k].alive

\* C8: when handle_event signals CHECKPOINT and the level is then resumed
\* (the runner is entered again, or resume_from_checkpoint is called), the
\* triple (color_idx, used_colors, target_dots_left) after the resume is the
\* triple at the moment the checkpoint was signalled, and the dot population
\* is the same.
C8_CheckpointRoundTrip ==
    [][(cl_status = "CHECKPOINT" /\ cl_last'.ev \in {"resume", "restart"}) =>
          /\ level'.color_idx = cl_checkpoint.color_idx
          /\ level'.used_colors = cl_checkpoint.used_colors
          /\ level'.target_dots_left = cl_checkpoint.target_dots_left
          /\ level'.dots = cl_checkpoint.dots]_vars

\* C9: before the first _switch_target_color after initialize() collisions
\* are disabled and the collision phase of _update_dots never runs; once
\* enabled, collision_enabled stays true through every step of the level
\* (ticks, hits, misses, rotations, regenerations, resume_from_checkpoint)
\* until a new level is initialized.
C9_CollisionGate ==
    /\ [](~cl_switched => (~level.collision_enabled /\ ~cl_last.collision_phase))
    /\ [][(level.collision_enabled /\ cl_last'.ev # "restart")
             => level'.collision_enabled]_vars

\* Collisions were enabled by a rotation and are still enabled after
\* resume_from_checkpoint.
C9_Witness ==
    /\ level.collision_enabled
    /\ cl_switched
    /\ cl_last.ev = "resume"

\* C13: in GAMEPLAY every pointer-down that is farther than the click radius
\* from every alive target dot appends one crack while the crack count is
\* below MAX_CRACKS, also when it is within the radius of an alive non-target
\* dot ("nontarget"); a pointer-down that hits a target dot appends no crack.
C13_MissAddsOneCrack ==
    [][/\ (cl_last'.ev \in {"miss", "nontarget"} /\ Len(glass_cracks) < MAX_CRACKS) =>
              Len(glass_cracks') = Len(glass_cracks) + 1
       /\ cl_last'.ev \in {"hit", "rotate"} => glass_cracks' = glass_cracks]_vars

\* The events in which handle_event runs to a return.
HandleEventEvs == {"start", "hit", "rotate", "nontarget", "blocked", "miss", "ignored", "exit"}

\* C16: handle_event returns "CHECKPOINT" for exactly the target hits that
\* bring total_dots_destroyed to a positive multiple of CHECKPOINT_TRIGGER,
\* whether or not the hit also rotates the target color; misses, clicks on
\* non-target dots and events outside GAMEPLAY never return "CHECKPOINT".
C16_CheckpointExactlyAtMultiples ==
    [][cl_last'.ev \in HandleEventEvs =>
          (cl_last'.status = "CHECKPOINT" <=>
              /\ cl_last'.ev \in {"hit", "rotate"}
              /\ level'.total_dots_destroyed > 0
              /\ level'.total_dots_destroyed % CHECKPOINT_TRIGGER = 0)]_vars

\* The hit that brings the total to the second multiple of CHECKPOINT_TRIGGER
\* also rotates the target color and returns "CHECKPOINT".
C16_Witness ==
    /\ cl_last.ev = "rotate"
    /\ cl_last.status = "CHECKPOINT"
    /\ level.total_dots_destroyed = 2 * CHECKPOINT_TRIGGER

\* ------------------------------------------------------------------------
\* Claims about the collision grid (checked under SpecGrid)
\* ------------------------------------------------------------------------
GdCellsAdjacent(a, b) ==
    LET ka == CellKey(gd_dots[a])
        kb == CellKey(gd_dots[b])
    IN /\ ka[1] - kb[1] \in {-1, 0, 1}
       /\ ka[2] - kb[2] \in {-1, 0, 1}

\* How often the unordered pair {a, b} was passed to _check_collision.
GdTimesChecked(a, b) ==
    Cardinality({k \in 1..Len(gd_pairs) :
                    gd_pairs[k] = <<a, b>> \/ gd_pairs[k] = <<b, a>>})

GdOverlapping(a, b) ==
    LET ddx == gd_dots[a].x - gd_dots[b].x
        ddy == gd_dots[a].y - gd_dots[b].y
    IN ddx * ddx + ddy * ddy < (2 * DOT_RADIUS) * (2 * DOT_RADIUS)

C20_ReusePolicy ==
    [][PsCreateParticle =>
          LET slot == ps_track'.slot IN
          IF \A i \in 1..Len(ps_pool) : ps_pool[i].active
          THEN Len(ps_active) = PsMaxParticles =>
                  /\ slot \in 1..Len(ps_pool)
                  /\ \A i \in 1..Len(ps_pool) : ps_pool[i].duration >= ps_pool[slot].duration
                  /\ Len(ps_pool') = Len(ps_pool)
                  /\ \A i \in 1..Len(ps_pool) : i # slot => ps_pool'[i] = ps_pool[i]
                  /\ Len(ps_active') = PsMaxParticles
                  /\ \A i \in 1..Len(ps_pool') : ps_pool'[i].active
          ELSE /\ slot \in 1..Len(ps_pool)
               /\ ~ps_pool[slot].active
               /\ ps_pool'[slot].active
               /\ \A i \in 1..Len(ps_pool) : ps_pool[i].active => ps_pool'[i] = ps_pool[i]]_vars

\* ------------------------------------------------------------------------
\* Claims about _check_collision (checked under SpecCollision)
\* ------------------------------------------------------------------------
\* The rounding allowed on a distance, in 1/100 pixel: each coordinate of a
\* dot is moved by a product rounded three times, and the distance is rounded.
CdEpsilon == 5

Abs(a) == IF a >= 0 THEN a ELSE -a

\* The centers are closer than r1 + r2 (exactly, on the squares).
Overlapping(dot1, dot2) ==
    (dot1.x - dot2.x) * (dot1.x - dot2.x) + (dot1.y - dot2.y) * (dot1.y - dot2.y)
        < (dot1.radius + dot2.radius) * (dot1.radius + dot2.radius)

\* The relative velocity along the line from dot2's center to dot1's is
\* negative (along the x axis for dots at the same position).
Approaching(dot1, dot2) ==
    IF dot1.x = dot2.x /\ dot1.y = dot2.y
    THEN dot1.dx - dot2.dx < 0
    ELSE (dot1.dx - dot2.dx) * (dot1.x - dot2.x) + (dot1.dy - dot2.dy) * (dot1.y - dot2.y) < 0

\* dot1 went from a1 to b1 and dot2 from a2 to b2 by opposite displacements
\* along the line of their centers, dot1 away from dot2.
MovedApartAlongNormal(a1, a2, b1, b2) ==
    LET nx == IF a1.x = a2.x /\ a1.y = a2.y THEN 1 ELSE a1.x - a2.x
        ny == a1.y - a2.y
        mx == b1.x - a1.x
        my == b1.y - a1.y
    IN /\ b2.x - a2.x = -mx
       /\ b2.y - a2.y = -my
       /\ mx * nx + my * ny > 0
       /\ Abs(mx * ny - my * nx) <= Abs(nx) + Abs(ny)

\* C17: for an overlapping, approaching pair one _check_collision call leaves
\* the centers at least r1 + r2 apart (up to rounding), each dot moved along
\* the normal; for a pair that does not overlap or is not approaching the
\* call returns False and changes no position and no velocity.
C17_CollisionSeparates ==
    [][cd_last'.op = "check" =>
          IF Overlapping(cd_dot1, cd_dot2) /\ Approaching(cd_dot1, cd_dot2)
          THEN /\ cd_last'.ret
               /\ CenterDistance(cd_dot1', cd_dot2') >= cd_dot1.radius + cd_dot2.radius - CdEpsilon
               /\ MovedApartAlongNormal(cd_dot1, cd_dot2, cd_dot1', cd_dot2')
          ELSE /\ ~cd_last'.ret
               /\ cd_dot1' = cd_dot1
               /\ cd_dot2' = cd_dot2]_vars

\* A pair on a diagonal was overlapping and approaching and is now r1 + r2
\* apart.
C17_Witness ==
    /\ cd_last.op = "check"
    /\ cd_last.ret
    /\ cd_last.branch = "standard"
    /\ cd_pre[1].x # cd_pre[2].x /\ cd_pre[1].y # cd_pre[2].y
    /\ Overlapping(cd_pre[1], cd_pre[2])
    /\ ~Overlapping(cd_dot1, cd_dot2)

\* Two dots of radius 24, at least 5 pixels apart and overlapping, that
\* approach head-on at speed 6 each.
HeadOn(dot1, dot2) ==
    /\ dot1.radius = 2400 /\ dot2.radius = 2400
    /\ Overlapping(dot1, dot2)
    /\ (dot1.x - dot2.x) * (dot1.x - dot2.x) + (dot1.y - dot2.y) * (dot1.y - dot2.y) >= 500 * 500
    /\ dot1.dx * dot1.dx + dot1.dy * dot1.dy = 600 * 600
    /\ dot2.dx = -dot1.dx /\ dot2.dy = -dot1.dy
    /\ dot1.dx * (dot1.y - dot2.y) = dot1.dy * (dot1.x - dot2.x)
    /\ Approaching(dot1, dot2)

\* C18 as stated: after one call on a head-on pair the pair no longer
\* overlaps and each dot's speed is exactly 6 * 0.8 = 4.8.
C18_HeadOnSpeedExactlyDamped ==
    [][(cd_last'.op = "check" /\ HeadOn(cd_dot1, cd_dot2)) =>
          /\ ~Overlapping(cd_dot1', cd_dot2')
          /\ Hypot(cd_dot1'.dx, cd_dot1'.dy) = 480
          /\ Hypot(cd_dot2'.dx, cd_dot2'.dy) = 480]_vars

\* C18 (amended): after one call on a head-on pair the centers are r1 + r2
\* apart up to rounding, and each velocity component is within 0.1 of 0.8
\* times the other dot's component before the call, so that each speed is
\* within 0.1 * sqrt(2) of 4.8.
C18_HeadOnDampedUpToJitter ==
    [][(cd_last'.op = "check" /\ HeadOn(cd_dot1, cd_dot2)) =>
          /\ cd_last'.ret
          /\ CenterDistance(cd_dot1', cd_dot2') >= 4800 - CdEpsilon
          /\ Abs(cd_dot1'.dx - (cd_dot2.dx * 4) \div 5) <= 10
          /\ Abs(cd_dot1'.dy - (cd_dot2.dy * 4) \div 5) <= 10
          /\ Abs(cd_dot2'.dx - (cd_dot1.dx * 4) \div 5) <= 10
          /\ Abs(cd_dot2'.dy - (cd_dot1.dy * 4) \div 5) <= 10
          /\ Abs(Hypot(cd_dot1'.dx, cd_dot1'.dy) - 480) <= 15
          /\ Abs(Hypot(cd_dot2'.dx, cd_dot2'.dy) - 480) <= 15]_vars

\* A head-on pair on a diagonal after its call: apart, and dot1's speed is
\* not 4.8.
C18_Witness ==
    /\ cd_last.op = "check"
    /\ cd_last.ret
    /\ HeadOn(cd_pre[1], cd_pre[2])
    /\ cd_pre[1].x # cd_pre[2].x /\ cd_pre[1].y # cd_pre[2].y
    /\ ~Overlapping(cd_dot1, cd_dot2)
    /\ Hypot(cd_dot1.dx, cd_dot1.dy) # 480

\* C19: for every pair closer than 5 pixels, whatever the velocities, the
\* call takes the emergency branch: both velocities are drawn anew (within
\* 8 + 0.1 of zero) and the centers end farther apart than they were.
C19_EmergencyForEveryNearPair ==
    [][(cd_last'.op = "check" /\ CenterDistance(cd_dot1, cd_dot2) < 500) =>
          /\ cd_last'.branch = "emergency"
          /\ \A v \in {cd_dot1'.dx, cd_dot1'.dy, cd_dot2'.dx, cd_dot2'.dy} : Abs(v) <= 810
          /\ CenterDistance(cd_dot1', cd_dot2') > CenterDistance(cd_dot1, cd_dot2)]_vars

\* ------------------------------------------------------------------------
\* Claims about the grid cell size (checked under SpecGridSize)
\* ------------------------------------------------------------------------
\* C22: a level or a particle system configured with a non-positive grid cell
\* size is rejected at initialization: it never gets as far as being
\* constructed, initialized or ticked.
C22_NonPositiveGridSizeRejected ==
    gc_cell_size <= 0 =>
        /\ gc_level.stage \in {"none", "rejected"}
        /\ gc_system.stage \in {"none", "rejected"}

\* ------------------------------------------------------------------------
\* Claims about resume_from_checkpoint (checked under SpecResume)
\* ------------------------------------------------------------------------
\* C23: resume_from_checkpoint sets target_dots_left to the number of alive
\* target dots, whatever it held before, and leaves color_idx, mother_color,
\* used_colors, the per-class hit counter and the dot list unchanged.
C23_ResumeRecountsTargets ==
    [][cl_last'.ev = "resume" =>
          /\ level'.target_dots_left = CountTargets(level.dots)
          /\ level'.color_idx = level.color_idx
          /\ level'.mother_color = level.mother_color
          /\ level'.used_colors = level.used_colors
          /\ level'.current_color_dots_destroyed = level.current_color_dots_destroyed
          /\ level'.dots = level.dots]_vars

\* A resume in GAMEPLAY after a rotation, with alive targets counted.
C23_Witness ==
    /\ cl_last.ev = "resume"
    /\ level.dots_state = "GAMEPLAY"
    /\ level.used_colors # <<>>
    /\ level.target_dots_left > 0
    /\ level.target_dots_left = CountTargets(level.dots)

\* ------------------------------------------------------------------------
\* Claims about the shatter in the Colors level loop (checked under SpecColors)
\* ------------------------------------------------------------------------
\* C24: in the frame loop of the Colors level, entered again on the same
\* Effects object after a restart, a latched shatter counts down: every tick
\* taken while shatter_timer > 0 decreases it (so that it reaches 0, the latch
\* is released and the crack marks are cleared).
C24_LatchedShatterCountsDown ==
    [][(ColorsTick /\ shatter_timer > 0) => shatter_timer' < shatter_timer]_vars

\* The dots _create_new_dots appended in a regeneration step: the positions
\* after the alive dots that were kept.
Spawned == (Cardinality({k \in 1..Len(level.dots) : level.dots[k].alive}) + 1)..Len(level'.dots)

\* The alive dots that already had the color of the class the regeneration
\* switched to.
ExistingOfNewClass ==
    Cardinality({k \in 1..Len(level.dots) :
                    level.dots[k].alive /\ level.dots[k].color = level'.mother_color})

\* C25: after the regeneration that update runs when it finds
\* target_dots_left <= 0 in GAMEPLAY, the list holds no dead dot and exactly
\* DESIRED_TOTAL dots; the new targets number min(max(0, NEW_DOTS_COUNT - alive
\* dots already of the active class), dots spawned); every other spawned dot is
\* a distractor of another class; target_dots_left > 0.
C25_RegenerationRefills ==
    [][cl_last'.ev = "regen" =>
          /\ \A k \in 1..Len(level'.dots) : level'.dots[k].alive
          /\ Len(level'.dots) = DESIRED_TOTAL
          /\ Cardinality({k \in Spawned : level'.dots[k].target})
                = Min(Max(0, NEW_DOTS_COUNT - ExistingOfNewClass), Cardinality(Spawned))
          /\ \A k \in Spawned :
                \/ level'.dots[k].target /\ level'.dots[k].color = level'.mother_color
                \/ ~level'.dots[k].target /\ level'.dots[k].color # level'.mother_color
          /\ level'.target_dots_left > 0]_vars

\* A regeneration has just replaced destroyed dots: the list is full again,
\* with targets and distractors, after at least one hit.
C25_Witness ==
    /\ cl_last.ev = "regen"
    /\ level.total_dots_destroyed > 0
    /\ Len(level.dots) = DESIRED_TOTAL
    /\ level.target_dots_left > 0
    /\ \E k \in 1..Len(level.dots) : ~level.dots[k].target

\* ------------------------------------------------------------------------
\* Claims about SuperStudent.py's shatter state (checked under SpecShatterState)
\* ------------------------------------------------------------------------
\* C26: the draw_cracks step at which shatter_timer reaches 0 leaves
\* background_shattered false, the two backgrounds as they were before the
\* shatter, and glass_cracks empty.
C26_DrawCracksRecovers ==
    [][(ss_last' = "draw_cracks" /\ ss_state.background_shattered
           /\ ss_state.shatter_timer > 0 /\ ss_state'.shatter_timer = 0) =>
          /\ ~ss_state'.background_shattered
          /\ <<ss_state'.current_background, ss_state'.opposite_background>> = ss_pre
          /\ ss_state'.glass_cracks = <<>>]_vars

\* The color the screen was filled with before the last shatter was latched:
\* background_shattered is false at the step that latches it, so the fill
\* was the current background of that moment.
SsPreShatterFill == ss_pre[1]

\* C37: while background_shattered is set the color the screen is filled
\* with (opposite_background if background_shattered else
\* current_background) differs from the fill color before the shatter, and
\* the draw_cracks step that completes the countdown brings the fill color
\* back to it.
C37_ShatterChangesFill ==
    [][ /\ ss_state'.background_shattered =>
              SsEffectiveBackground(ss_state') # SsPreShatterFill'
        /\ (ss_last' = "draw_cracks" /\ ss_state.background_shattered
               /\ ~ss_state'.background_shattered) =>
              SsEffectiveBackground(ss_state') = SsPreShatterFill' ]_vars

\* C38: whenever background_shattered is false the two backgrounds have
\* their initial values, whichever of draw_cracks, game_over_screen and
\* game_loop cleared the flag.
C38_BackgroundsRestored ==
    ~ss_state.background_shattered =>
        /\ ss_state.current_background = SsFresh.current_background
        /\ ss_state.opposite_background = SsFresh.opposite_background

\* ------------------------------------------------------------------------
\* Claims about the wall bounce (checked under SpecBounce)
\* ------------------------------------------------------------------------
\* The integrated coordinate pos + step is beyond the low wall or the high wall.
CrossedLow(pos, vel, radius, ms) == pos + BnStep(vel, ms) - radius < 0
CrossedHigh(pos, vel, radius, limit, ms) == pos + BnStep(vel, ms) + radius > limit

\* One axis of a dot before (pos, vel) and after (pos2, vel2) the bounce:
\* clamped to touch the wall it crossed, velocity negated, moving away from it.
BouncedOff(pos, vel, pos2, vel2, radius, limit, ms) ==
    /\ CrossedLow(pos, vel, radius, ms) =>
          pos2 = radius /\ vel2 = -vel /\ vel2 > 0
    /\ CrossedHigh(pos, vel, radius, limit, ms) =>
          pos2 = limit - radius /\ vel2 = -vel /\ vel2 < 0
    /\ (~CrossedLow(pos, vel, radius, ms) /\ ~CrossedHigh(pos, vel, radius, limit, ms)) =>
          vel2 = vel

\* C27: an alive dot that is beyond a wall after integration is clamped to
\* touch that wall and its velocity component on that axis is negated and
\* points away from the wall; the component of an axis without a crossing is
\* unchanged. This holds for dots that the collision separation of the
\* previous tick displaced, too.
C27_WallBounceReflects ==
    bn_last.op = "update" =>
        \A i \in 1..2 :
            /\ BouncedOff(bn_pre[i].x, bn_pre[i].dx, bn_bounced[i].x, bn_bounced[i].dx,
                          bn_pre[i].radius, ArenaWidth, bn_last.ms)
            /\ BouncedOff(bn_pre[i].y, bn_pre[i].dy, bn_bounced[i].y, bn_bounced[i].dy,
                          bn_pre[i].radius, ArenaHeight, bn_last.ms)

\* ------------------------------------------------------------------------
\* More claims about the Colors level (checked under SpecColors)
\* ------------------------------------------------------------------------
\* C28: every qualifying miss handled by handle_event, not only the one that
\* reaches the shatter threshold, starts a screen shake: right after it
\* shake_duration > 0.
C28_EveryMissShakes ==
    cl_last.ev = "miss" => shake_duration > 0


\* ------------------------------------------------------------------------
\* Claims about the sequence of target classes (checked under SpecSelection)
\* ------------------------------------------------------------------------
\* C29: all classes are used before one repeats: in the sequence of selections
\* made from initialize() on, between two selections of the same class every
\* other class has been selected at least once.
C29_AllClassesBetweenRepeats ==
    \A i \in 1..Len(sl_selected) : \A j \in (i + 1)..Len(sl_selected) :
        sl_selected[i] = sl_selected[j] =>
            \A c \in ColorIdx \ {sl_selected[i]} :
                \E k \in (i + 1)..(j - 1) : sl_selected[k] = c


\* ------------------------------------------------------------------------
\* Claims about start_colors_level_instance (checked under SpecRunner)
\* ------------------------------------------------------------------------
RnCount(calls, name) == Cardinality({k \in 1..Len(calls) : calls[k] = name})

RnRank(name) == IF name = "handle_event" THEN 1 ELSE IF name = "update" THEN 2 ELSE 3

\* C30: in every iteration of the loop all pending events are handled before
\* update and update runs before draw; once handle_event has returned a
\* terminating status no further event is handled and neither update nor draw
\* is called again; cleanup is called exactly once on the way out, and the
\* function returns the terminating status.
C30_LoopOrderAndExit ==
    /\ \A i \in 1..Len(rn_iter) : \A j \in (i + 1)..Len(rn_iter) :
          /\ RnRank(rn_iter[i]) <= RnRank(rn_iter[j])
          /\ rn_iter[i] # "handle_event" => rn_iter[i] # rn_iter[j]
    /\ InList("update", rn_iter) => RnCount(rn_iter, "handle_event") = rn_got
    /\ InList("draw", rn_iter) => InList("update", rn_iter)
    /\ rn_term_at > 0 =>
          /\ \A k \in (rn_term_at + 1)..Len(rn_calls) : rn_calls[k] = "cleanup"
          /\ rn_calls[rn_term_at] = "handle_event"
    /\ RnCount(rn_calls, "cleanup") = (IF rn_pc = "returned" THEN 1 ELSE 0)
    /\ rn_pc = "returned" =>
          /\ rn_calls[Len(rn_calls)] = "cleanup"
          /\ rn_term_at > 0 => rn_ret = rn_level_status /\ rn_ret \in TerminatingStatuses

\* A call that ran a whole iteration, then met a terminating event with
\* another event still pending behind it, and has returned.
C30_Witness ==
    /\ rn_pc = "returned"
    /\ rn_iterations > 0
    /\ rn_term_at > 0
    /\ rn_pending # <<>>
    /\ rn_ret = "CHECKPOINT"


\* ------------------------------------------------------------------------
\* Claims about ResourceManager (checked under SpecResources)
\* ------------------------------------------------------------------------
\* C31: unload_level_resources(L) evicts only resources used by L alone: a
\* cached font, image or sound that is also registered to another level still
\* present in level_resources stays cached, whichever level is the current
\* one, and L's own registration is removed.
C31_UnloadKeepsSharedResources ==
    [][ (rm_last'.op = "unload_level_resources" /\ rm_level_resources[rm_last'.level].present) =>
          /\ ~rm_level_resources'[rm_last'.level].present
          /\ \A other \in RmLevels \ {rm_last'.level} :
                rm_level_resources[other].present =>
                   /\ rm_level_resources[other].fonts \cap rm_fonts \subseteq rm_fonts'
                   /\ rm_level_resources[other].images \cap rm_images \subseteq rm_images'
                   /\ rm_level_resources[other].sounds \cap rm_sounds \subseteq rm_sounds' ]_vars


\* ------------------------------------------------------------------------
\* Claims about hit detection in ColorsLevel.handle_event (checked under SpecColors)
\* ------------------------------------------------------------------------
\* The dots a step marks dead.
KilledDots == {k \in 1..Len(level.dots) : level.dots[k].alive /\ ~level'.dots[k].alive}

\* C32: during GAMEPLAY a pointer-down within the click radius of at least one
\* alive target dot (the events "hit", "rotate" and "blocked" of the model)
\* always registers a hit: exactly one alive target dot is marked dead,
\* target_dots_left drops by one (when the hit does not rotate the class, which
\* recounts it) and no crack is added, whatever the order of the dots and the
\* non-target dots within the radius; no pointer-down kills more than one dot.
\* Steps that end the level are left out: their cleanup() empties the list.
C32_ClickNearTargetHits ==
    [][ /\ (cl_last'.ev \in {"hit", "rotate", "blocked"} /\ cl_last'.status = "NONE") =>
             /\ Len(level'.dots) = Len(level.dots)
             /\ Cardinality(KilledDots) = 1
             /\ \A k \in KilledDots : level.dots[k].target
             /\ cl_last'.ev # "rotate" => level'.target_dots_left = level.target_dots_left - 1
             /\ glass_cracks' = glass_cracks
        /\ (cl_last'.ev \in {"hit", "rotate", "blocked", "nontarget", "miss"}
            /\ cl_last'.status = "NONE") =>
             /\ Len(level'.dots) = Len(level.dots)
             /\ Cardinality(KilledDots) <= 1 ]_vars


\* ------------------------------------------------------------------------
\* Claims about what changes the target class (checked under SpecColors)
\* ------------------------------------------------------------------------
\* The active class and the used-set are those of the state before.
ClassUnchanged ==
    /\ level'.color_idx = level.color_idx
    /\ level'.mother_color = level.mother_color
    /\ level'.used_colors = level.used_colors

\* C33: during GAMEPLAY the active class and the used-set change only by a hit
\* that completes the quota on the current class; ticks, misses, hits short of
\* the quota, regeneration of the population and checkpoint resume leave the
\* active class and the used-set as they are and do not reset the per-class
\* hit counter (a hit short of the quota adds one to it).
C33_OnlyQuotaHitsRotate ==
    [][ (level.dots_state = "GAMEPLAY" /\ cl_run = "running") =>
          /\ cl_last'.ev \in {"tick", "regen", "miss", "nontarget", "blocked", "resume", "ignored"} =>
                /\ ClassUnchanged
                /\ level'.current_color_dots_destroyed = level.current_color_dots_destroyed
          /\ cl_last'.ev = "hit" =>
                /\ ClassUnchanged
                /\ level'.current_color_dots_destroyed = level.current_color_dots_destroyed + 1
          /\ cl_last'.ev = "rotate" =>
                level.current_color_dots_destroyed + 1 >= TARGET_QUOTA ]_vars


\* ------------------------------------------------------------------------
\* Claims about the slots of ParticleManager (checked under SpecParticleManager)
\* ------------------------------------------------------------------------
\* get_particle would hand out a particle.
PmCanCreate ==
    \/ \E i \in 1..Len(pm_pool) : ~pm_pool[i].active
    \/ Len(pm_particles) < PmMaxParticles

\* C34: no slot is leaked: create_particle returns None only while
\* max_particles particles are active at once; a particle that update leaves
\* active has duration left; after clear() no particle is active and
\* create_particle succeeds again.
C34_NoSlotLeaked ==
    /\ pm_last = [op |-> "create", where |-> "none"] => PmActiveCount >= PmMaxParticles
    /\ pm_last.op = "update" =>
          /\ \A i \in 1..Len(pm_pool) : pm_pool[i].active => pm_pool[i].duration > 0
          /\ \A k \in 1..Len(pm_particles) : pm_particles[k].active => pm_particles[k].duration > 0
    /\ pm_last.op = "clear" => (PmActiveCount = 0 /\ PmCanCreate)


\* ------------------------------------------------------------------------
\* Claims about active_particles (checked under SpecParticleSystem)
\* ------------------------------------------------------------------------
\* C35: after any sequence of create_particle, update and clear calls,
\* active_particles contains each pool slot at most once and contains exactly
\* the slots whose active flag is true.
C35_ActiveListMatchesFlags ==
    /\ \A j \in 1..Len(ps_active) : \A k \in 1..Len(ps_active) :
          ps_active[j] = ps_active[k] => j = k
    /\ \A i \in 1..Len(ps_pool) :
          ps_pool[i].active <=> \E k \in 1..Len(ps_active) : ps_active[k] = i


\* ------------------------------------------------------------------------
\* Claims about the dots' positions after a tick (checked under SpecBounce)
\* ------------------------------------------------------------------------
\* C36: at the end of every update in GAMEPLAY every alive dot's center lies
\* inside the arena: radius <= x <= width - radius and
\* radius <= y <= height - radius.
C36_DotsStayInArena ==
    bn_last.op = "update" => \A i \in 1..2 : BnInArena(bn_dots[i])

\* ------------------------------------------------------------------------
\* Claims about TouchManager (checked under SpecTouch)
\* ------------------------------------------------------------------------
\* The touches a finger created, all but the given ones, are as they were.
TmOthersUntouched(source) ==
    \A t \in TmTouchIds :
        (tm_active_touches[t].present /\ tm_owner[t] # source) =>
            tm_active_touches'[t] = tm_active_touches[t]

\* C39: after the up event of a finger no touch that a down event of that
\* finger created is left with is_down true, and the up and motion events of
\* a finger leave the touches of every other finger as they were.
C39_EventsReachOwnTouch ==
    [][ /\ (tm_last'.op = "up" /\ tm_last'.source[1]) =>
              /\ \A t \in TmTouchIds :
                    (tm_active_touches'[t].present /\ tm_owner'[t] = tm_last'.source) =>
                        ~tm_active_touches'[t].is_down
              /\ TmOthersUntouched(tm_last'.source)
        /\ (tm_last'.op = "motion" /\ tm_last'.source[1]) =>
              TmOthersUntouched(tm_last'.source) ]_vars

====
